---- MODULE Spec2Model ----
(***************************************************************************)
(* Reservation and inventory conservation engine of fLOKr.                 *)
(*                                                                         *)
(* The database rows (inventory items, reservations, transfers, the two    *)
(* restriction fields of the user) are the state; every request handler,   *)
(* service method and scheduled job is one action.  Time is counted in     *)
(* whole days: timezone.now() is `now` and timezone.now().date() is the    *)
(* same number.                                                            *)
(***************************************************************************)
EXTENDS Integers, Sequences, FiniteSets, TLC

VARIABLES items, reservations, transfers, users, now, resp, reqs

vars == <<items, reservations, transfers, users, now, resp, reqs>>

(***************************************************************************)
(* Bounds of the model.                                                    *)
(***************************************************************************)
MaxRes == 1          \* reservation rows created in the stock specification
MaxTransfers == 1    \* transfer rows created
MaxLateRes == 3      \* reservation rows created in the restriction specification
MaxDay == 2          \* last day the clock reaches

(***************************************************************************)
(* Program constants.                                                      *)
(***************************************************************************)
LATE_RETURN_THRESHOLD == 3
RESTRICTION_DAYS == 30
WARNING_THRESHOLD == 2

\* A null column (actual_return_date, borrowing_restricted_until).
NULL == -9

Hubs == {"A", "B"}
Names == {"tent", "lamp"}

\* The accounts that act: two borrowers and a steward.
Borrowers == {"u1", "u2"}
Stewards == {"s1"}
Actors == Borrowers \cup Stewards

role(u) == IF u \in Stewards THEN "steward" ELSE "newcomer"

IsStewardOrAdmin(u) == role(u) \in {"steward", "admin"}

(***************************************************************************)
(* Rows.                                                                   *)
(***************************************************************************)
InventoryItem(h, n, total, avail) ==
    [hub |-> h, name |-> n, quantity_total |-> total, quantity_available |-> avail]

Reservation(u, i, h, q, st, pd, erd) ==
    [user |-> u, item |-> i, hub |-> h, quantity |-> q, status |-> st,
     pickup_date |-> pd, expected_return_date |-> erd, actual_return_date |-> NULL,
     extension_requested |-> FALSE, extension_approved |-> FALSE]

InventoryTransfer(i, fh, th, q) ==
    [item |-> i, from_hub |-> fh, to_hub |-> th, quantity |-> q, status |-> "pending"]

User == [late_return_count |-> 0, borrowing_restricted_until |-> NULL]

Response(op, code) == [op |-> op, code |-> code]

\* No request is in flight (the handlers below run to completion).
NoReqs == << >>

(***************************************************************************)
(* Queryset of a reservation request: admins see all rows, stewards the    *)
(* rows of their hubs, everybody else only their own.                      *)
(***************************************************************************)
get_queryset(actor) ==
    {r \in DOMAIN reservations :
        \/ role(actor) = "admin"
        \/ role(actor) = "steward"
        \/ role(actor) \notin {"admin", "steward"} /\ reservations[r].user = actor}

(***************************************************************************)
(* ReservationCreateSerializer.validate: the first check that fails gives  *)
(* the error, "ok" when none does.  `it` is the item row and `usr` the     *)
(* user row the request has read.                                          *)
(***************************************************************************)
validate_unrestricted(usr, it, q, pd, erd) ==
    IF q > it.quantity_available THEN "insufficient"
    ELSE IF pd < now THEN "bad_pickup_date"
    ELSE IF erd <= pd THEN "bad_return_date"
    ELSE "ok"

validate(usr, it, q, pd, erd) ==
    IF usr.borrowing_restricted_until # NULL /\ usr.borrowing_restricted_until > now
    THEN "restricted"
    ELSE IF q > it.quantity_available THEN "insufficient"
    ELSE IF pd < now THEN "bad_pickup_date"
    ELSE IF erd <= pd THEN "bad_return_date"
    ELSE "ok"

(***************************************************************************)
(* The two ledger writes of the reservation handlers on the item row `it`  *)
(* they have read: `item.quantity_available -= quantity; item.save()` of   *)
(* create,                                                                 *)
(* and `item.quantity_available += reservation.quantity; item.save()` of   *)
(* return_item and cancel.                                                 *)
(***************************************************************************)
hold_none(it, q) == it

hold(it, q) == [it EXCEPT !.quantity_available = @ - q]

release_none(it, q) == it

release(it, q) == [it EXCEPT !.quantity_available = @ + q]

(***************************************************************************)
(* POST /reservations/ : validate, insert the row as confirmed, take the   *)
(* quantity out of the item's quantity_available.                          *)
(***************************************************************************)
Create(u, i, h, q, pd, erd) ==
    /\ reqs = NoReqs
    /\ i \in DOMAIN items
    /\ LET code == validate(users[u], items[i], q, pd, erd) IN
         IF code = "ok"
         THEN /\ reservations' = Append(reservations,
                                        Reservation(u, i, h, q, "confirmed", pd, erd))
              /\ items' = [items EXCEPT ![i] = hold(@, q)]
              /\ resp' = [op |-> "create", code |-> "ok", user |-> u]
         ELSE /\ resp' = [op |-> "create", code |-> code, user |-> u]
              /\ UNCHANGED <<reservations, items>>
    /\ UNCHANGED <<transfers, users, now, reqs>>

(***************************************************************************)
(* POST /reservations/{id}/pickup/                                         *)
(***************************************************************************)
pickup(actor, r) ==
    /\ reqs = NoReqs
    /\ IF r \notin get_queryset(actor)
       THEN /\ resp' = Response("pickup", "not_found")
            /\ UNCHANGED reservations
       ELSE IF reservations[r].status # "confirmed"
       THEN /\ resp' = Response("pickup", "invalid")
            /\ UNCHANGED reservations
       ELSE /\ reservations' = [reservations EXCEPT ![r].status = "picked_up"]
            /\ resp' = Response("pickup", "ok")
    /\ UNCHANGED <<items, transfers, users, now, reqs>>

(***************************************************************************)
(* LateReturnService.apply_late_return_penalty on the user row `usr`.      *)
(* notifyOk says whether the notification calls return; when one raises,   *)
(* the rows saved before it stay and the rest of the method is skipped.    *)
(***************************************************************************)
_apply_restriction(usr) ==
    [usr EXCEPT !.borrowing_restricted_until = now + RESTRICTION_DAYS]

apply_late_return_penalty_early(usr, notifyOk) ==
    LET counted == [usr EXCEPT !.late_return_count = @ + 1] IN
    IF counted.late_return_count = WARNING_THRESHOLD /\ ~notifyOk
    THEN usr
    ELSE IF counted.late_return_count >= WARNING_THRESHOLD
    THEN _apply_restriction(counted)
    ELSE IF notifyOk THEN counted ELSE usr

apply_late_return_penalty(usr, notifyOk) ==
    LET counted == [usr EXCEPT !.late_return_count = @ + 1] IN
    IF counted.late_return_count = WARNING_THRESHOLD /\ ~notifyOk
    THEN usr
    ELSE IF counted.late_return_count >= LATE_RETURN_THRESHOLD
    THEN _apply_restriction(counted)
    ELSE IF notifyOk THEN counted ELSE usr

\* The notification types apply_late_return_penalty sends for the user row
\* `usr` when every call of the gateway returns.
penalty_notifications(usr) ==
    LET count == usr.late_return_count + 1 IN
    (IF count = WARNING_THRESHOLD THEN {"restriction_warning"} ELSE {})
      \cup (IF count >= LATE_RETURN_THRESHOLD
            THEN {"borrowing_restricted"} ELSE {"late_return"})

\* The answer of a late return_item: the notifications sent when the penalty
\* call returned, an error when one of them raised.
LateResponse(usr, notifyOk) ==
    IF notifyOk
    THEN [op |-> "return_item", code |-> "ok", sent |-> penalty_notifications(usr)]
    ELSE Response("return_item", "error")

(***************************************************************************)
(* POST /reservations/{id}/return_item/                                    *)
(***************************************************************************)
\* The acknowledgments of an on-time return: 'on_time_return' always, and
\* 'consecutive_returns' when the query for the user's returned rows with
\* actual_return_date <= expected_return_date, newest first and cut after
\* 5 rows, counts 5 rows.
on_time_returns(rs, u) ==
    {r \in DOMAIN rs : /\ rs[r].user = u
                       /\ rs[r].status = "returned"
                       /\ rs[r].actual_return_date <= rs[r].expected_return_date}

awards(rs, u) ==
    IF Cardinality(on_time_returns(rs, u)) >= 5
    THEN {"on_time_return", "consecutive_returns"}
    ELSE {"on_time_return"}

OnTimeResponse(rs, u) ==
    [op |-> "return_item", code |-> "ok", awards |-> awards(rs, u)]

return_item(actor, r, notifyOk) ==
    /\ reqs = NoReqs
    /\ IF r \notin get_queryset(actor)
       THEN /\ resp' = Response("return_item", "not_found")
            /\ UNCHANGED <<reservations, items, users>>
       ELSE IF reservations[r].status # "picked_up"
       THEN /\ resp' = Response("return_item", "invalid")
            /\ UNCHANGED <<reservations, items, users>>
       ELSE LET res == reservations[r]
                is_late == now > res.expected_return_date
            IN  /\ reservations' = [reservations EXCEPT ![r].status = "returned",
                                                        ![r].actual_return_date = now]
                /\ items' = [items EXCEPT ![res.item] = release(@, res.quantity)]
                /\ IF is_late
                   THEN /\ users' = [users EXCEPT ![res.user] =
                                        apply_late_return_penalty(@, notifyOk)]
                        /\ resp' = LateResponse(users[res.user], notifyOk)
                   ELSE /\ UNCHANGED users
                        /\ resp' = OnTimeResponse(reservations', res.user)
    /\ UNCHANGED <<transfers, now, reqs>>

(***************************************************************************)
(* POST /reservations/{id}/cancel/                                         *)
(***************************************************************************)
cancel(actor, r) ==
    /\ reqs = NoReqs
    /\ IF r \notin get_queryset(actor)
       THEN /\ resp' = Response("cancel", "not_found")
            /\ UNCHANGED <<reservations, items>>
       ELSE IF reservations[r].user # actor /\ role(actor) \notin {"steward", "admin"}
       THEN /\ resp' = Response("cancel", "forbidden")
            /\ UNCHANGED <<reservations, items>>
       ELSE IF reservations[r].status \notin {"pending", "confirmed"}
       THEN /\ resp' = Response("cancel", "invalid")
            /\ UNCHANGED <<reservations, items>>
       ELSE /\ reservations' = [reservations EXCEPT ![r].status = "cancelled"]
            /\ items' = [items EXCEPT ![reservations[r].item] =
                                  release(@, reservations[r].quantity)]
            /\ resp' = Response("cancel", "ok")
    /\ UNCHANGED <<transfers, users, now, reqs>>

(***************************************************************************)
(* POST /reservations/{id}/request_extension/                              *)
(***************************************************************************)
can_request_extension_always(res) == TRUE

can_request_extension(res) == res.status = "picked_up"

request_extension(actor, r) ==
    /\ reqs = NoReqs
    /\ IF r \notin get_queryset(actor)
       THEN /\ resp' = Response("request_extension", "not_found")
            /\ UNCHANGED reservations
       ELSE IF reservations[r].user # actor
       THEN /\ resp' = Response("request_extension", "forbidden")
            /\ UNCHANGED reservations
       ELSE IF ~can_request_extension(reservations[r])
       THEN /\ resp' = Response("request_extension", "invalid")
            /\ UNCHANGED reservations
       ELSE /\ reservations' = [reservations EXCEPT ![r].extension_requested = TRUE]
            /\ resp' = Response("request_extension", "ok")
    /\ UNCHANGED <<items, transfers, users, now, reqs>>

(***************************************************************************)
(* approve_extension: any authenticated actor who can see the reservation  *)
(* (the action names no permission class of its own); it needs             *)
(* extension_requested and a new_return_date (NULL: the request gave       *)
(* none), sets extension_approved and expected_return_date and saves the   *)
(* reservation.                                                            *)
(***************************************************************************)
extension_error_unrequested(res, new_return_date) ==
    IF new_return_date = NULL THEN "invalid" ELSE "ok"

extension_error(res, new_return_date) ==
    IF ~res.extension_requested THEN "invalid"
    ELSE IF new_return_date = NULL THEN "invalid"
    ELSE "ok"

approve_extension(actor, r, new_return_date) ==
    /\ reqs = NoReqs
    /\ IF r \notin get_queryset(actor)
       THEN /\ resp' = Response("approve_extension", "not_found")
            /\ UNCHANGED reservations
       ELSE IF extension_error(reservations[r], new_return_date) # "ok"
       THEN /\ resp' = Response("approve_extension", "invalid")
            /\ UNCHANGED reservations
       ELSE /\ reservations' = [reservations EXCEPT
                                   ![r].extension_approved = TRUE,
                                   ![r].expected_return_date = new_return_date]
            /\ resp' = Response("approve_extension", "ok")
    /\ UNCHANGED <<items, transfers, users, now, reqs>>

(***************************************************************************)
(* POST /reservations/lift_restriction/ and LateReturnService              *)
(* .lift_restriction: a user row without a restriction date is left alone  *)
(* (the service returns False, the endpoint answers 400); any other has    *)
(* the date cleared and saved, and then the notification is sent.          *)
(***************************************************************************)
has_restriction_in_future(usr) ==
    usr.borrowing_restricted_until # NULL /\ usr.borrowing_restricted_until > now

has_restriction(usr) == usr.borrowing_restricted_until # NULL

lift_restriction(actor, u, notifyOk) ==
    /\ reqs = NoReqs
    /\ IF ~IsStewardOrAdmin(actor)
       THEN /\ resp' = [op |-> "lift_restriction", code |-> "forbidden",
                        user |-> u, sent |-> {}]
            /\ UNCHANGED users
       ELSE IF ~has_restriction(users[u])
       THEN /\ resp' = [op |-> "lift_restriction", code |-> "invalid",
                        user |-> u, sent |-> {}]
            /\ UNCHANGED users
       ELSE /\ users' = [users EXCEPT ![u].borrowing_restricted_until = NULL]
            /\ resp' = [op |-> "lift_restriction",
                        code |-> IF notifyOk THEN "ok" ELSE "error",
                        user |-> u,
                        sent |-> IF notifyOk THEN {"restriction_lifted"} ELSE {}]
    /\ UNCHANGED <<items, reservations, transfers, now, reqs>>

(***************************************************************************)
(* check_and_lift_expired_restrictions under the task                      *)
(* lift_expired_restrictions: the users whose borrowing_restricted_until   *)
(* is at or before now are read in one query and lift_restriction is       *)
(* called for each, every call saving its user before it sends the         *)
(* notification.  When a notification call raises, the loop stops there:   *)
(* `lifted` are the users saved up to and including that one, in whatever  *)
(* order the query returned them, and the task asks for a retry.           *)
(***************************************************************************)
expired_restrictions_before_now ==
    {u \in DOMAIN users : /\ users[u].borrowing_restricted_until # NULL
                          /\ users[u].borrowing_restricted_until < now}

expired_restrictions ==
    {u \in DOMAIN users : /\ users[u].borrowing_restricted_until # NULL
                          /\ users[u].borrowing_restricted_until <= now}

check_and_lift_expired_restrictions(lifted, notifyOk) ==
    /\ reqs = NoReqs
    /\ lifted \subseteq expired_restrictions
    /\ IF notifyOk THEN lifted = expired_restrictions ELSE lifted # {}
    /\ users' = [u \in DOMAIN users |->
                    IF u \in lifted /\ has_restriction(users[u])
                    THEN [users[u] EXCEPT !.borrowing_restricted_until = NULL]
                    ELSE users[u]]
    /\ resp' = IF notifyOk
               THEN [op |-> "lift_expired_restrictions", code |-> "ok",
                     restrictions_lifted |-> Cardinality(lifted)]
               ELSE [op |-> "lift_expired_restrictions", code |-> "retry",
                     restrictions_lifted |-> 0]
    /\ UNCHANGED <<items, reservations, transfers, now, reqs>>

(***************************************************************************)
(* The clock moves to a later day.                                         *)
(***************************************************************************)
AdvanceClock(t) ==
    /\ t > now
    /\ now' = t
    /\ resp' = Response("clock", "ok")
    /\ UNCHANGED <<items, reservations, transfers, users, reqs>>

(***************************************************************************)
(* expire_pending_reservations: every pending reservation whose pickup     *)
(* date is before today is cancelled and its quantity given back, each in  *)
(* a transaction of its own.  dbFail are the candidates whose transaction  *)
(* raises at one of its statements (rolled back, counted as failed and     *)
(* not as expired); commitFail are those whose transaction raises when it  *)
(* commits, after `expired_count += 1` has run inside the block (rolled    *)
(* back, counted as expired and as failed); notifFail are those whose      *)
(* notification dispatch raises (caught and logged as a warning).          *)
(***************************************************************************)
expired_reservations ==
    {r \in DOMAIN reservations :
        reservations[r].status = "pending" /\ reservations[r].pickup_date < now}

RECURSIVE released(_, _, _)
released(rs, i, S) ==
    IF S = {} THEN 0
    ELSE LET r == CHOOSE x \in S : TRUE IN
         (IF rs[r].item = i THEN rs[r].quantity ELSE 0) + released(rs, i, S \ {r})

expire_pending_reservations(dbFail, commitFail, notifFail) ==
    /\ reqs = NoReqs
    /\ dbFail \subseteq expired_reservations
    /\ commitFail \subseteq expired_reservations \ dbFail
    /\ notifFail \subseteq expired_reservations \ (dbFail \cup commitFail)
    /\ LET done == expired_reservations \ (dbFail \cup commitFail) IN
         /\ reservations' = [r \in DOMAIN reservations |->
                               IF r \in done
                               THEN [reservations[r] EXCEPT !.status = "cancelled"]
                               ELSE reservations[r]]
         /\ items' = [i \in DOMAIN items |->
                        [items[i] EXCEPT !.quantity_available =
                                             @ + released(reservations, i, done)]]
         /\ resp' = [op |-> "expire", code |-> "ok",
                     expired |-> Cardinality(done) + Cardinality(commitFail),
                     failed |-> Cardinality(dbFail) + Cardinality(commitFail),
                     warned |-> Cardinality(notifFail)]
    /\ UNCHANGED <<transfers, users, now, reqs>>

(***************************************************************************)
(* InventoryTransferService.  Each method runs in one transaction: when    *)
(* a notification call raises (notifyOk false) every write of the method   *)
(* is rolled back and the request ends in an error.                        *)
(***************************************************************************)
\* The checks of InventoryTransferService.initiate_transfer, in their order:
\* the first that fails is the ValueError raised, "ok" when none does.
transfer_error_allows_zero(it, from_hub, to_hub, q) ==
    IF it.hub # from_hub THEN "wrong_hub"
    ELSE IF from_hub = to_hub THEN "same_hub"
    ELSE IF q < 0 THEN "not_positive"
    ELSE IF q > it.quantity_available THEN "insufficient"
    ELSE "ok"

transfer_error(it, from_hub, to_hub, q) ==
    IF it.hub # from_hub THEN "wrong_hub"
    ELSE IF from_hub = to_hub THEN "same_hub"
    ELSE IF q <= 0 THEN "not_positive"
    ELSE IF q > it.quantity_available THEN "insufficient"
    ELSE "ok"

\* InventoryTransferService.initiate_transfer(item, from_hub, to_hub, quantity).
InventoryTransferService_initiate_transfer(i, from_hub, to_hub, q, notifyOk) ==
    /\ reqs = NoReqs
    /\ i \in DOMAIN items
    /\ IF transfer_error(items[i], from_hub, to_hub, q) # "ok"
       THEN /\ resp' = Response("initiate_transfer", "invalid")
            /\ UNCHANGED <<transfers, items>>
       ELSE IF ~notifyOk
       THEN /\ resp' = Response("initiate_transfer", "error")
            /\ UNCHANGED <<transfers, items>>
       ELSE /\ transfers' = Append(transfers,
                                   InventoryTransfer(i, from_hub, to_hub, q))
            /\ items' = [items EXCEPT ![i].quantity_available = @ - q]
            /\ resp' = Response("initiate_transfer", "ok")
    /\ UNCHANGED <<reservations, users, now, reqs>>

\* POST /inventory/{id}/initiate_transfer/ : the endpoint calls the service
\* with from_hub = item.hub.
initiate_transfer(actor, i, to_hub, q, notifyOk) ==
    IF ~IsStewardOrAdmin(actor)
    THEN /\ reqs = NoReqs
         /\ resp' = Response("initiate_transfer", "forbidden")
         /\ UNCHANGED <<transfers, items, reservations, users, now, reqs>>
    ELSE IF i \notin DOMAIN items
    THEN /\ reqs = NoReqs
         /\ resp' = Response("initiate_transfer", "not_found")
         /\ UNCHANGED <<transfers, items, reservations, users, now, reqs>>
    ELSE InventoryTransferService_initiate_transfer(i, items[i].hub, to_hub, q, notifyOk)

approve_transfer(actor, t, notifyOk) ==
    /\ reqs = NoReqs
    /\ IF ~IsStewardOrAdmin(actor)
       THEN /\ resp' = Response("approve_transfer", "forbidden")
            /\ UNCHANGED transfers
       ELSE IF t \notin DOMAIN transfers
       THEN /\ resp' = Response("approve_transfer", "not_found")
            /\ UNCHANGED transfers
       ELSE IF transfers[t].status # "pending"
       THEN /\ resp' = Response("approve_transfer", "invalid")
            /\ UNCHANGED transfers
       ELSE IF ~notifyOk
       THEN /\ resp' = Response("approve_transfer", "error")
            /\ UNCHANGED transfers
       ELSE /\ transfers' = [transfers EXCEPT ![t].status = "in_transit"]
            /\ resp' = Response("approve_transfer", "ok")
    /\ UNCHANGED <<items, reservations, users, now, reqs>>

\* `item.quantity_total -= quantity; item.save()` at the source hub.
reduce_source_keeps_total(its, tr) == its

reduce_source(its, tr) == [its EXCEPT ![tr.item].quantity_total = @ - tr.quantity]

\* `item.quantity_available += transfer.quantity; item.save()` of cancel_transfer.
restore_source_as_total(its, tr) ==
    [its EXCEPT ![tr.item].quantity_total = @ + tr.quantity]

restore_source(its, tr) ==
    [its EXCEPT ![tr.item].quantity_available = @ + tr.quantity]

\* InventoryItem.objects.filter(hub, name, category).first() under the
\* model's ordering (newest row first); 0 when no row matches.
destination_item(its, hub, name) ==
    LET matches == {j \in DOMAIN its : its[j].hub = hub /\ its[j].name = name} IN
    IF matches = {} THEN 0
    ELSE CHOOSE j \in matches : \A k \in matches : k <= j

complete_transfer(actor, t, notifyOk) ==
    /\ reqs = NoReqs
    /\ IF ~IsStewardOrAdmin(actor)
       THEN /\ resp' = Response("complete_transfer", "forbidden")
            /\ UNCHANGED <<transfers, items>>
       ELSE IF t \notin DOMAIN transfers
       THEN /\ resp' = Response("complete_transfer", "not_found")
            /\ UNCHANGED <<transfers, items>>
       ELSE IF transfers[t].status # "in_transit"
       THEN /\ resp' = Response("complete_transfer", "invalid")
            /\ UNCHANGED <<transfers, items>>
       ELSE IF ~notifyOk
       THEN /\ resp' = Response("complete_transfer", "error")
            /\ UNCHANGED <<transfers, items>>
       ELSE LET tr == transfers[t]
                quantity == tr.quantity
                source == reduce_source(items, tr)
                dest == destination_item(source, tr.to_hub, source[tr.item].name)
            IN  /\ items' = IF dest # 0
                            THEN [source EXCEPT
                                    ![dest].quantity_total = @ + quantity,
                                    ![dest].quantity_available = @ + quantity]
                            ELSE Append(source,
                                        InventoryItem(tr.to_hub, source[tr.item].name,
                                                      quantity, quantity))
                /\ transfers' = [transfers EXCEPT ![t].status = "completed"]
                /\ resp' = Response("complete_transfer", "ok")
    /\ UNCHANGED <<reservations, users, now, reqs>>

\* The two status checks of cancel_transfer.
cancellable_always(tr) == TRUE

cancellable(tr) == tr.status # "completed" /\ tr.status # "cancelled"

cancel_transfer(actor, t, notifyOk) ==
    /\ reqs = NoReqs
    /\ IF ~IsStewardOrAdmin(actor)
       THEN /\ resp' = Response("cancel_transfer", "forbidden")
            /\ UNCHANGED <<transfers, items>>
       ELSE IF t \notin DOMAIN transfers
       THEN /\ resp' = Response("cancel_transfer", "not_found")
            /\ UNCHANGED <<transfers, items>>
       ELSE IF ~cancellable(transfers[t])
       THEN /\ resp' = Response("cancel_transfer", "invalid")
            /\ UNCHANGED <<transfers, items>>
       ELSE IF ~notifyOk
       THEN /\ resp' = Response("cancel_transfer", "error")
            /\ UNCHANGED <<transfers, items>>
       ELSE /\ items' = restore_source(items, transfers[t])
            /\ transfers' = [transfers EXCEPT ![t].status = "cancelled"]
            /\ resp' = Response("cancel_transfer", "ok")
    /\ UNCHANGED <<reservations, users, now, reqs>>

(***************************************************************************)
(* The stock specification: one borrower, reservations and transfers of    *)
(* the items of two hubs, every handler run to completion, the             *)
(* notification gateway answering.                                         *)
(***************************************************************************)
Quantities == {-1, 1, 2}

\* Pickup date and expected return date of a request, as offsets from today.
Dates == {<<-1, 0>>, <<0, 0>>, <<0, 1>>}

InitItems ==
    {<<InventoryItem("A", "tent", 2, 2), InventoryItem("B", "tent", 1, 1)>>,
     <<InventoryItem("A", "tent", 2, 2), InventoryItem("B", "lamp", 1, 1)>>}

Init ==
    /\ items \in InitItems
    /\ reservations = << >>
    /\ transfers = << >>
    /\ users = [u \in Borrowers |-> User]
    /\ now = 0
    /\ resp = Response("none", "ok")
    /\ reqs = NoReqs

Next ==
    \/ \E i \in DOMAIN items, q \in Quantities, d \in Dates :
          /\ Len(reservations) < MaxRes
          /\ Create("u1", i, items[i].hub, q, now + d[1], now + d[2])
    \/ \E r \in DOMAIN reservations : pickup("s1", r)
    \/ \E r \in DOMAIN reservations : return_item("s1", r, TRUE)
    \/ \E a \in Borrowers, r \in DOMAIN reservations : cancel(a, r)
    \/ \E a \in {"u1", "s1"}, i \in DOMAIN items, h \in Hubs, q \in {0, 1, 2} :
          /\ Len(transfers) < MaxTransfers
          /\ initiate_transfer(a, i, h, q, TRUE)
    \/ \E t \in DOMAIN transfers : approve_transfer("s1", t, TRUE)
    \/ \E t \in DOMAIN transfers : complete_transfer("s1", t, TRUE)
    \/ \E t \in DOMAIN transfers : cancel_transfer("s1", t, TRUE)

Spec == Init /\ [][Next]_vars

(***************************************************************************)
(* Properties of the stock specification.                                  *)
(***************************************************************************)

\* C1 (I1, stock bounds): every item satisfies
\* 0 <= quantity_available <= quantity_total in every reachable state.
C1_StockBounds ==
    \A i \in DOMAIN items :
        /\ 0 <= items[i].quantity_available
        /\ items[i].quantity_available <= items[i].quantity_total

\* quantity_total of the source item of transfer row `tr` plus that of the
\* destination item it is matched with in the item table `its` (0 when the
\* destination hub has no matching item yet).
PairTotal(its, tr) ==
    LET dest == destination_item(its, tr.to_hub, its[tr.item].name) IN
    its[tr.item].quantity_total + (IF dest = 0 THEN 0 ELSE its[dest].quantity_total)

\* The step creates transfer t or moves it to in_transit or completed.
TransferAdvances(t) ==
    \/ t \notin DOMAIN transfers
    \/ /\ t \in DOMAIN transfers
       /\ transfers'[t].status # transfers[t].status
       /\ transfers'[t].status \in {"in_transit", "completed"}

\* C2 (I2, conservation): no step of initiate -> approve -> complete changes
\* the sum of quantity_total over the source item and the destination item
\* of the transfer, so the sum after complete is the sum before initiate.
C2_TransferConservesTotal ==
    [][\A t \in DOMAIN transfers' :
          TransferAdvances(t) =>
              PairTotal(items', transfers'[t]) = PairTotal(items, transfers'[t])]_vars

\* A transfer has just been completed into a newly created destination item.
C2_Witness ==
    /\ resp = Response("complete_transfer", "ok")
    /\ Len(items) = 3
    /\ \E t \in DOMAIN transfers : transfers[t].status = "completed"

quantity_available(its, i) == its[i].quantity_available

\* C4 (reservation round trip): create sets the row confirmed and takes exactly
\* its quantity out of the item's quantity_available, pickup changes no
\* quantity, and an on-time return_item and a cancel each put exactly that
\* quantity back, so create-pickup-return and create-cancel leave
\* quantity_available as it was before create.
C4_RoundTrip ==
    [][\A r \in DOMAIN reservations' :
          LET new == reservations'[r] IN
          /\ r \notin DOMAIN reservations =>
                /\ new.status = "confirmed"
                /\ quantity_available(items', new.item)
                      = quantity_available(items, new.item) - new.quantity
          /\ r \in DOMAIN reservations =>
                LET old == reservations[r] IN
                /\ new.quantity = old.quantity /\ new.item = old.item
                /\ (old.status = "confirmed" /\ new.status = "picked_up") =>
                      items' = items
                /\ (old.status = "picked_up" /\ new.status = "returned"
                        /\ new.actual_return_date <= new.expected_return_date) =>
                      quantity_available(items', old.item)
                          = quantity_available(items, old.item) + old.quantity
                /\ (old.status = "confirmed" /\ new.status = "cancelled") =>
                      quantity_available(items', old.item)
                          = quantity_available(items, old.item) + old.quantity]_vars

\* A reservation of a valid quantity has been created, picked up and returned
\* on time, and its item has all its stock available again.
C4_Witness ==
    /\ resp = OnTimeResponse(reservations, "u1")
    /\ \E r \in DOMAIN reservations :
          /\ reservations[r].status = "returned"
          /\ reservations[r].quantity >= 1
          /\ reservations[r].actual_return_date <= reservations[r].expected_return_date
          /\ items[reservations[r].item].quantity_available
                = items[reservations[r].item].quantity_total

\* C5 (transfer cancel round trip): initiate takes the quantity out of the
\* source item's quantity_available, approve changes no quantity, cancel from
\* pending or in_transit puts exactly that quantity back, and none of them
\* changes the source item's quantity_total.
C5_TransferCancelRestores ==
    [][\A t \in DOMAIN transfers' :
          LET tr == transfers'[t]
              src == tr.item
          IN
          /\ t \notin DOMAIN transfers =>
                /\ tr.status = "pending"
                /\ items'[src].quantity_available
                      = items[src].quantity_available - tr.quantity
                /\ items'[src].quantity_total = items[src].quantity_total
          /\ (t \in DOMAIN transfers /\ tr.status # transfers[t].status) =>
                /\ tr.quantity = transfers[t].quantity /\ tr.item = transfers[t].item
                /\ tr.status = "in_transit" => items' = items
                /\ tr.status = "cancelled" =>
                      /\ transfers[t].status \in {"pending", "in_transit"}
                      /\ items'[src].quantity_available
                            = items[src].quantity_available + tr.quantity
                      /\ items'[src].quantity_total = items[src].quantity_total]_vars

\* A transfer has just been cancelled and its source item has all its stock
\* available again.
C5_Witness ==
    /\ resp = Response("cancel_transfer", "ok")
    /\ \E t \in DOMAIN transfers :
          /\ transfers[t].status = "cancelled"
          /\ items[transfers[t].item].quantity_available
                = items[transfers[t].item].quantity_total

\* C18 (quantity at least 1): a create with a quantity below 1 is rejected,
\* creates no reservation and changes no item; no reservation with a quantity
\* below 1 exists; and an accepted create never increases an item's
\* quantity_available.
C18_QuantityAtLeastOne ==
    /\ [](\A r \in DOMAIN reservations : reservations[r].quantity >= 1)
    /\ [][\A i \in DOMAIN items, q \in Quantities, d \in Dates :
            Create("u1", i, items[i].hub, q, now + d[1], now + d[2]) =>
                /\ q < 1 => /\ resp'.code # "ok"
                            /\ reservations' = reservations
                            /\ items' = items
                /\ items'[i].quantity_available <= items[i].quantity_available]_vars

(***************************************************************************)
(* The restriction specification: borrowers reserve single units of one    *)
(* item, a steward hands them out and takes them back, and the clock       *)
(* moves, so that returns come back late; the notification gateway may    *)
(* raise on any call, and stewards lift restrictions.  u1 starts with a    *)
(* clean record; u2 starts with a restriction imposed by earlier late      *)
(* returns that ends on day 1.                                             *)
(***************************************************************************)
InitUsers ==
    [u \in Borrowers |->
        IF u = "u1" THEN User
        ELSE [late_return_count |-> LATE_RETURN_THRESHOLD,
              borrowing_restricted_until |-> 1]]

InitRestrict ==
    /\ items = <<InventoryItem("A", "tent", 3, 3)>>
    /\ reservations = << >>
    /\ transfers = << >>
    /\ users = InitUsers
    /\ now = 0
    /\ resp = Response("none", "ok")
    /\ reqs = NoReqs

NextRestrict ==
    \/ \E u \in Borrowers :
          /\ \/ Len(reservations) < MaxLateRes
             \/ validate(users[u], items[1], 1, now, now + 1) # "ok"
          /\ Create(u, 1, "A", 1, now, now + 1)
    \/ \E r \in DOMAIN reservations : pickup("s1", r)
    \/ \E r \in DOMAIN reservations, ok \in BOOLEAN : return_item("s1", r, ok)
    \/ \E t \in 0 .. MaxDay : AdvanceClock(t)

SpecRestrict == InitRestrict /\ [][NextRestrict]_vars

\* The user row is under a restriction at the current time.
Restricted(usr) ==
    usr.borrowing_restricted_until # NULL /\ usr.borrowing_restricted_until > now

\* C3 (I3, restriction gate): a create by a user whose
\* borrowing_restricted_until is in the future is answered with the
\* restriction error and changes neither the reservations nor any item; a
\* create by a user whose borrowing_restricted_until is null or in the past
\* is never answered with the restriction error.
C3_RestrictionGate ==
    [][resp'.op = "create" =>
          LET usr == users[resp'.user] IN
          /\ Restricted(usr) =>
                /\ resp'.code = "restricted"
                /\ reservations' = reservations
                /\ items' = items
          /\ (usr.borrowing_restricted_until = NULL
                \/ usr.borrowing_restricted_until < now) =>
                resp'.code # "restricted"]_vars

\* A create of the restricted borrower has just been turned down, after the
\* unrestricted borrower reserved.
C3_Witness ==
    /\ resp = [op |-> "create", code |-> "restricted", user |-> "u2"]
    /\ Restricted(users["u2"])
    /\ \E r \in DOMAIN reservations : reservations[r].user = "u1"

\* The reservations of user u that came back after their expected date.
LateReturns(rs, u) ==
    {r \in DOMAIN rs :
        /\ rs[r].user = u
        /\ rs[r].status = "returned"
        /\ rs[r].actual_return_date > rs[r].expected_return_date}

\* C7 (late-return threshold): a user who started with late_return_count 0
\* and no restriction has no restriction while fewer than 3 of the returns
\* were late, and the return that is the 3rd late one sets
\* borrowing_restricted_until to the time of that return plus 30 days.
C7_LateReturnThreshold ==
    /\ [](\A u \in Borrowers :
            (InitUsers[u] = User /\ Cardinality(LateReturns(reservations, u)) < 3) =>
                users[u].borrowing_restricted_until = NULL)
    /\ [][\A u \in Borrowers :
            (/\ InitUsers[u] = User
             /\ Cardinality(LateReturns(reservations, u)) = 2
             /\ Cardinality(LateReturns(reservations', u)) = 3) =>
                users'[u].borrowing_restricted_until = now + 30]_vars

MaxLiftRes == 1      \* reservation rows created in the lifting specification

NextLift ==
    \/ \E u \in Borrowers :
          /\ \/ Len(reservations) < MaxLiftRes
             \/ validate(users[u], items[1], 1, now, now + 1) # "ok"
          /\ Create(u, 1, "A", 1, now, now + 1)
    \/ \E r \in DOMAIN reservations : pickup("s1", r)
    \/ \E r \in DOMAIN reservations, ok \in BOOLEAN : return_item("s1", r, ok)
    \/ \E a \in {"u1", "s1"}, u \in Borrowers, ok \in BOOLEAN : lift_restriction(a, u, ok)
    \/ \E t \in 0 .. MaxDay : AdvanceClock(t)

SpecLift == InitRestrict /\ [][NextLift]_vars

LiftCall(u) ==
    /\ resp'.op = "lift_restriction"
    /\ resp'.user = u
    /\ resp'.code # "forbidden"

\* C20 (lift_restriction): a call for a user who is not restricted at the
\* time (borrowing_restricted_until null or not in the future) is turned
\* down, changes no user and sends nothing; a call for a restricted user
\* clears borrowing_restricted_until, leaves late_return_count alone and,
\* when the notification call returns, is accepted with one notification sent.
C20_LiftOnlyCurrentRestriction ==
    [][\A u \in Borrowers :
          LiftCall(u) =>
              IF ~Restricted(users[u])
              THEN /\ resp'.code = "invalid"
                   /\ users' = users
                   /\ resp'.sent = {}
              ELSE /\ users' = [users EXCEPT ![u].borrowing_restricted_until = NULL]
                   /\ resp'.code \in {"ok", "error"}
                   /\ resp'.code = "ok" => resp'.sent = {"restriction_lifted"}]_vars

\* C20 as the code has it: a call for a user whose borrowing_restricted_until
\* is null is turned down, changes no user and sends nothing; a call for a
\* user whose borrowing_restricted_until is set, in the future or not, clears
\* it and leaves late_return_count alone, and, when the notification call
\* returns, is accepted with one notification sent.
C20_LiftClearsAnyRestriction ==
    [][\A u \in Borrowers :
          LiftCall(u) =>
              IF users[u].borrowing_restricted_until = NULL
              THEN /\ resp'.code = "invalid"
                   /\ users' = users
                   /\ resp'.sent = {}
              ELSE /\ users' = [users EXCEPT ![u].borrowing_restricted_until = NULL]
                   /\ resp'.code \in {"ok", "error"}
                   /\ resp'.code = "ok" => resp'.sent = {"restriction_lifted"}
                   /\ resp'.code = "error" => resp'.sent = {}]_vars

\* A restriction that had ended the day before has just been lifted.
C20_Witness ==
    /\ resp = [op |-> "lift_restriction", code |-> "ok", user |-> "u2",
               sent |-> {"restriction_lifted"}]
    /\ now = 2
    /\ users["u2"] = [late_return_count |-> 3, borrowing_restricted_until |-> NULL]

(***************************************************************************)
(* The scheduled sweep of expired restrictions, next to the requests of    *)
(* the lifting specification, from users with no restriction or one that   *)
(* ends on day 1 or day 2.                                                  *)
(***************************************************************************)
SweepUsers ==
    {User,
     [late_return_count |-> LATE_RETURN_THRESHOLD, borrowing_restricted_until |-> 1],
     [late_return_count |-> LATE_RETURN_THRESHOLD, borrowing_restricted_until |-> 2]}

InitSweep ==
    /\ items = <<InventoryItem("A", "tent", 3, 3)>>
    /\ reservations = << >>
    /\ transfers = << >>
    /\ users \in [Borrowers -> SweepUsers]
    /\ now = 0
    /\ resp = Response("none", "ok")
    /\ reqs = NoReqs

NextSweep ==
    \/ \E u \in Borrowers :
          /\ \/ Len(reservations) < MaxLiftRes
             \/ validate(users[u], items[1], 1, now, now + 1) # "ok"
          /\ Create(u, 1, "A", 1, now, now + 1)
    \/ \E r \in DOMAIN reservations : pickup("s1", r)
    \/ \E r \in DOMAIN reservations, ok \in BOOLEAN : return_item("s1", r, ok)
    \/ \E u \in Borrowers, ok \in BOOLEAN : lift_restriction("s1", u, ok)
    \/ \E lifted \in SUBSET Borrowers, ok \in BOOLEAN :
          check_and_lift_expired_restrictions(lifted, ok)
    \/ \E t \in 0 .. MaxDay : AdvanceClock(t)

SpecSweep == InitSweep /\ [][NextSweep]_vars

\* The sweep has just returned.
SweepRun == resp.op = "lift_expired_restrictions" /\ resp.code = "ok"

\* C21 (sweep of expired restrictions): a sweep that returns sets
\* borrowing_restricted_until to null for exactly the users whose value is
\* at or before now, leaves every other user (restricted until a later time,
\* or not restricted) and every late_return_count as they were, and returns
\* the number of users it lifted; a sweep that returns right after a sweep
\* that returned, at the same time, returns 0 and changes no user.
C21_SweepLiftsExpired ==
    [][SweepRun' =>
          LET passed == {u \in Borrowers :
                            /\ users[u].borrowing_restricted_until # NULL
                            /\ users[u].borrowing_restricted_until <= now}
          IN  /\ users' = [u \in Borrowers |->
                              IF u \in passed
                              THEN [users[u] EXCEPT !.borrowing_restricted_until = NULL]
                              ELSE users[u]]
              /\ resp'.restrictions_lifted = Cardinality(passed)
              /\ SweepRun => /\ resp'.restrictions_lifted = 0
                             /\ users' = users]_vars

\* A sweep has just lifted the one restriction that ended today and left the
\* one that ends tomorrow.
C21_Witness ==
    /\ SweepRun
    /\ resp.restrictions_lifted = 1
    /\ now = 1
    /\ users["u1"] = [late_return_count |-> 3, borrowing_restricted_until |-> NULL]
    /\ users["u2"] = [late_return_count |-> 3, borrowing_restricted_until |-> 2]

(***************************************************************************)
(* The expiry specification: the reservation table starts with two rows    *)
(* that hold one unit each, pending or confirmed, to be picked up          *)
(* yesterday or today; the expiry job runs between cancels, pickups and    *)
(* clock moves, and any of its units may fail.                             *)
(***************************************************************************)
InitRows ==
    {Reservation("u1", 1, "A", 1, st, pd, pd + 1) :
        st \in {"pending", "confirmed"}, pd \in {0, 1}}

InitExpire ==
    /\ items = <<InventoryItem("A", "tent", 3, 1)>>
    /\ reservations \in {<<a, b>> : a \in InitRows, b \in InitRows}
    /\ transfers = << >>
    /\ users = [u \in Borrowers |-> User]
    /\ now = 1
    /\ resp = Response("none", "ok")
    /\ reqs = NoReqs

NextExpire ==
    \/ \E dbFail \in SUBSET expired_reservations :
          \E commitFail \in SUBSET (expired_reservations \ dbFail) :
              \E notifFail \in SUBSET (expired_reservations \ (dbFail \cup commitFail)) :
                  expire_pending_reservations(dbFail, commitFail, notifFail)
    \/ \E r \in DOMAIN reservations : pickup("s1", r)
    \/ \E r \in DOMAIN reservations : cancel("u1", r)
    \/ \E t \in 0 .. MaxDay : AdvanceClock(t)

SpecExpire == InitExpire /\ [][NextExpire]_vars

\* The step is a run of the expiry job in which no unit failed.
ExpiryRun == resp'.op = "expire" /\ resp'.failed = 0

\* Rows with a pickup date before today in one of the statuses `sts`.
PastPickup(sts) ==
    {r \in DOMAIN reservations :
        reservations[r].status \in sts /\ reservations[r].pickup_date < now}

\* The run cancels exactly the rows of set S and gives their quantities back.
CancelsExactly(S) ==
    /\ DOMAIN reservations' = DOMAIN reservations
    /\ \A r \in DOMAIN reservations :
          reservations'[r] = IF r \in S
                             THEN [reservations[r] EXCEPT !.status = "cancelled"]
                             ELSE reservations[r]
    /\ DOMAIN items' = DOMAIN items
    /\ \A i \in DOMAIN items :
          items'[i] = [items[i] EXCEPT !.quantity_available =
                                           @ + released(reservations, i, S)]

\* C10 (expiry): after a run in which no unit fails, every row that was
\* pending or confirmed with a pickup date before today is cancelled and its
\* quantity is back in quantity_available; every other row is unchanged.
C10_ExpiresPendingAndConfirmed ==
    [][ExpiryRun => CancelsExactly(PastPickup({"pending", "confirmed"}))]_vars

\* C11 (batch isolation): in every run of the expiry job the candidates that
\* did not fail, those whose notification dispatch raised included, are
\* cancelled with their stock released, whatever happened to the others, and
\* the summary satisfies expired + failed = number of candidates.
C11_BatchIsolation ==
    [][resp'.op = "expire" =>
          LET cancelled == {r \in expired_reservations :
                               reservations'[r].status = "cancelled"}
          IN  /\ Cardinality(cancelled)
                    = Cardinality(expired_reservations) - resp'.failed
              /\ CancelsExactly(cancelled)
              /\ resp'.expired + resp'.failed = Cardinality(expired_reservations)]_vars

(***************************************************************************)
(* send_overdue_reminders: every reservation that is picked_up or overdue, *)
(* has no actual_return_date and was expected back before today is one     *)
(* unit.  A unit that is not overdue yet is saved as overdue in a          *)
(* transaction of its own; then, on the days of the cadence, the user      *)
(* reminder is dispatched and, for 3 days or more, the steward             *)
(* notification.  saveFail are the units whose status save raises,         *)
(* commitFail those whose transaction raises when it commits (after        *)
(* `status_updated += 1`), userFail and stewardFail those whose user or    *)
(* steward dispatch raises; each of them is caught by the unit's except    *)
(* branch and counted as failed.  resp.reminded and resp.stewards are the  *)
(* reservations whose user / steward notification has been dispatched.     *)
(***************************************************************************)
overdue_reservations ==
    {r \in DOMAIN reservations :
        /\ reservations[r].status \in {"picked_up", "overdue"}
        /\ reservations[r].expected_return_date < now
        /\ reservations[r].actual_return_date = NULL}

days_overdue(r) == now - reservations[r].expected_return_date

needs_update_always(res) == TRUE

needs_update(res) == res.status # "overdue"

should_send_reminder_daily(n) == TRUE

should_send_reminder(n) == n = 1 \/ n = 3 \/ n = 7 \/ n % 7 = 0

notifies_stewards_always(n) == TRUE

notifies_stewards(n) == n >= 3

send_overdue_reminders(saveFail, commitFail, userFail, stewardFail) ==
    /\ reqs = NoReqs
    /\ LET toUpdate == {r \in overdue_reservations : needs_update(reservations[r])}
           processed == overdue_reservations \ (saveFail \cup commitFail)
           due == {r \in processed : should_send_reminder(days_overdue(r))}
           reminded == due \ userFail
           forStewards == {r \in reminded : notifies_stewards(days_overdue(r))}
       IN  /\ saveFail \subseteq toUpdate
           /\ commitFail \subseteq toUpdate \ saveFail
           /\ userFail \subseteq due
           /\ stewardFail \subseteq forStewards
           /\ reservations' = [r \in DOMAIN reservations |->
                                 IF r \in toUpdate \cap processed
                                 THEN [reservations[r] EXCEPT !.status = "overdue"]
                                 ELSE reservations[r]]
           /\ resp' = [op |-> "overdue", code |-> "ok",
                       reminders_sent |-> Cardinality(reminded \ stewardFail),
                       status_updated |-> Cardinality(toUpdate \ saveFail),
                       failed |-> Cardinality(saveFail \cup commitFail
                                                \cup userFail \cup stewardFail),
                       reminded |-> reminded,
                       stewards |-> forStewards \ stewardFail]
    /\ UNCHANGED <<items, transfers, users, now, reqs>>

(***************************************************************************)
(* The overdue specification: two reservations of one item, handed out or  *)
(* waiting to be, expected back on day 1, 2 or 3; days pass and the        *)
(* overdue job runs, any of its units failing at any of its calls.         *)
(***************************************************************************)
MaxOverdueDay == 15  \* last day the clock reaches in the overdue specification

InitOverdueRows ==
    {Reservation("u1", 1, "A", 1, st, 0, erd) :
        st \in {"confirmed", "picked_up"}, erd \in {1, 2, 3}}

InitOverdue ==
    /\ items = <<InventoryItem("A", "tent", 3, 1)>>
    /\ reservations \in {<<a, b>> : a \in InitOverdueRows, b \in InitOverdueRows}
    /\ transfers = << >>
    /\ users = [u \in Borrowers |-> User]
    /\ now = 1
    /\ resp = Response("none", "ok")
    /\ reqs = NoReqs

NextOverdue ==
    \/ \E saveFail \in SUBSET overdue_reservations :
          \E commitFail \in SUBSET (overdue_reservations \ saveFail) :
              \E userFail \in SUBSET overdue_reservations :
                  \E stewardFail \in SUBSET (overdue_reservations \ userFail) :
                      send_overdue_reminders(saveFail, commitFail, userFail, stewardFail)
    \/ \E r \in DOMAIN reservations : pickup("s1", r)
    \/ \E t \in 0 .. MaxOverdueDay : AdvanceClock(t)

SpecOverdue == InitOverdue /\ [][NextOverdue]_vars

\* The step is a run of the overdue job in which no unit failed.
OverdueRun == resp'.op = "overdue" /\ resp'.failed = 0

\* C12 (overdue escalation): a run in which no unit fails moves every
\* picked_up reservation that is expected back before today and has no
\* actual_return_date to overdue, changes no other row and counts in
\* status_updated the rows it moved, not those that were overdue already; a
\* run that follows such a run at once changes no status and reports
\* status_updated = 0; and no run, failing or not, changes any item.
C12_OverdueEscalation ==
    [][resp'.op = "overdue" =>
          /\ items' = items
          /\ OverdueRun =>
                /\ DOMAIN reservations' = DOMAIN reservations
                /\ \A r \in DOMAIN reservations :
                      reservations'[r] =
                          IF /\ reservations[r].status = "picked_up"
                             /\ reservations[r].expected_return_date < now
                             /\ reservations[r].actual_return_date = NULL
                          THEN [reservations[r] EXCEPT !.status = "overdue"]
                          ELSE reservations[r]
                /\ resp'.status_updated =
                      Cardinality({r \in overdue_reservations :
                                      reservations[r].status = "picked_up"})
                /\ (resp.op = "overdue" /\ resp.failed = 0) =>
                      /\ resp'.status_updated = 0
                      /\ reservations' = reservations]_vars

\* A second run has just followed a run that moved a reservation to overdue.
C12_Witness ==
    /\ resp.op = "overdue"
    /\ resp.failed = 0
    /\ resp.status_updated = 0
    /\ \E r \in DOMAIN reservations : reservations[r].status = "overdue"

\* C13 (reminder cadence): in a run in which no unit fails, the user reminder
\* of a reservation that is N >= 1 days overdue is dispatched if and only if
\* N is 1, 3, 7 or a later multiple of 7.
C13_ReminderCadence ==
    [][OverdueRun =>
          \A r \in overdue_reservations :
              LET N == now - reservations[r].expected_return_date IN
              /\ N >= 1
              /\ r \in resp'.reminded <=>
                    (N \in {1, 3, 7} \/ (N > 7 /\ N % 7 = 0))]_vars

\* A run has just reminded the user of a reservation that is 14 days overdue
\* and has sent nothing for one that is 13 days overdue.
C13_Witness ==
    /\ resp.op = "overdue"
    /\ resp.failed = 0
    /\ \E r \in resp.reminded : now - reservations[r].expected_return_date = 14
    /\ \E r \in DOMAIN reservations :
          /\ reservations[r].status = "overdue"
          /\ now - reservations[r].expected_return_date = 13
          /\ r \notin resp.reminded

\* C14 (steward escalation): in a run in which no unit fails the stewards are
\* notified of a reservation exactly when its user reminder is dispatched in
\* that run and it is at least 3 days overdue; in no run are they notified of
\* a reservation that is less than 3 days overdue.
C14_StewardEscalation ==
    [][resp'.op = "overdue" =>
          /\ \A r \in resp'.stewards : now - reservations[r].expected_return_date >= 3
          /\ OverdueRun =>
                \A r \in overdue_reservations :
                    r \in resp'.stewards <=>
                        (/\ r \in resp'.reminded
                         /\ now - reservations[r].expected_return_date >= 3)]_vars

\* A run has just notified the stewards of a reservation 3 days overdue and
\* reminded the user of another, 1 day overdue, without notifying them.
C14_Witness ==
    /\ resp.op = "overdue"
    /\ resp.failed = 0
    /\ \E r \in resp.stewards : now - reservations[r].expected_return_date = 3
    /\ \E r \in resp.reminded \ resp.stewards :
          now - reservations[r].expected_return_date = 1

(***************************************************************************)
(* The guards specification: one reservation of u1 that starts pending or  *)
(* confirmed and the reservations u2 creates, with every account calling   *)
(* every transition on every reservation.                                  *)
(***************************************************************************)
MaxGuardRes == 2     \* reservation rows in the guards specification

InitGuards ==
    /\ items = <<InventoryItem("A", "tent", 3, 2)>>
    /\ reservations \in {<<Reservation("u1", 1, "A", 1, st, 0, 1)>> :
                            st \in {"pending", "confirmed"}}
    /\ transfers = << >>
    /\ users = [u \in Borrowers |-> User]
    /\ now = 0
    /\ resp = Response("none", "ok")
    /\ reqs = NoReqs

NextGuards ==
    \/ /\ Len(reservations) < MaxGuardRes
       /\ Create("u2", 1, "A", 1, now, now + 1)
    \/ \E a \in Actors, r \in DOMAIN reservations : pickup(a, r)
    \/ \E a \in Actors, r \in DOMAIN reservations : return_item(a, r, TRUE)
    \/ \E a \in Actors, r \in DOMAIN reservations : cancel(a, r)
    \/ \E a \in Actors, r \in DOMAIN reservations : request_extension(a, r)

SpecGuards == InitGuards /\ [][NextGuards]_vars

\* C15 (transition guards): a pickup is accepted only from confirmed, a
\* return_item only from picked_up, a cancel only from pending or confirmed
\* and only for the reserving user or a steward or admin, a request_extension
\* only from picked_up and only for the reserving user; a rejected call
\* changes no reservation and no item; pickup and request_extension change no
\* item, accepted or not.
C15_TransitionGuards ==
    [][\A a \in Actors, r \in DOMAIN reservations :
          LET old == reservations[r]
              accepted == resp'.code = "ok"
              nothing == reservations' = reservations /\ items' = items
          IN  /\ pickup(a, r) =>
                    /\ items' = items
                    /\ accepted => old.status = "confirmed"
                    /\ ~accepted => nothing
              /\ return_item(a, r, TRUE) =>
                    /\ accepted => old.status = "picked_up"
                    /\ ~accepted => nothing
              /\ cancel(a, r) =>
                    /\ accepted => /\ old.status \in {"pending", "confirmed"}
                                   /\ old.user = a \/ role(a) \in {"steward", "admin"}
                    /\ ~accepted => nothing
              /\ request_extension(a, r) =>
                    /\ items' = items
                    /\ accepted => old.status = "picked_up" /\ old.user = a
                    /\ ~accepted => nothing]_vars

\* A cancel has just been turned down for a reservation that is picked up and
\* has an extension requested by its user.
C15_Witness ==
    /\ resp = Response("cancel", "invalid")
    /\ \E r \in DOMAIN reservations :
          /\ reservations[r].status = "picked_up"
          /\ reservations[r].extension_requested

(***************************************************************************)
(* The transfer specification: stewards move the stock of two hubs, the    *)
(* service being called through its endpoints and directly, with any       *)
(* source hub and quantity, and the notification gateway answering or      *)
(* raising.                                                                *)
(***************************************************************************)
MaxTransferRows == 2 \* transfer rows created in the transfer specification

TransferQuantities == {-1, 0, 1, 2, 3}

InitTransfer ==
    /\ items \in InitItems
    /\ reservations = << >>
    /\ transfers = << >>
    /\ users = [u \in Borrowers |-> User]
    /\ now = 0
    /\ resp = Response("none", "ok")
    /\ reqs = NoReqs

NextTransfer ==
    \/ \E i \in DOMAIN items, fh \in Hubs, th \in Hubs :
          \E q \in TransferQuantities, ok \in BOOLEAN :
              /\ \/ Len(transfers) < MaxTransferRows
                 \/ transfer_error(items[i], fh, th, q) # "ok"
              /\ InventoryTransferService_initiate_transfer(i, fh, th, q, ok)
    \/ \E a \in {"u1", "s1"}, i \in DOMAIN items, th \in Hubs :
          /\ Len(transfers) < MaxTransferRows
          /\ initiate_transfer(a, i, th, 1, TRUE)
    \/ \E t \in DOMAIN transfers, ok \in BOOLEAN : approve_transfer("s1", t, ok)
    \/ \E t \in DOMAIN transfers, ok \in BOOLEAN : complete_transfer("s1", t, ok)
    \/ \E t \in DOMAIN transfers, ok \in BOOLEAN : cancel_transfer("s1", t, ok)

SpecTransfer == InitTransfer /\ [][NextTransfer]_vars

\* The status changes a transfer may make, each with the call that makes it.
TransferMoves ==
    {<<"pending", "in_transit", "approve_transfer">>,
     <<"in_transit", "completed", "complete_transfer">>,
     <<"pending", "cancelled", "cancel_transfer">>,
     <<"in_transit", "cancelled", "cancel_transfer">>}

\* C16 (transfer state machine): a transfer changes status only from pending
\* to in_transit in an approve, from in_transit to completed in a complete,
\* and from pending or in_transit to cancelled in a cancel; an approve of a
\* transfer that is not pending, a complete of one that is not in_transit and
\* a cancel of one that is completed or cancelled are rejected and change no
\* transfer and no item; an approve changes no item.
C16_TransferStateMachine ==
    [][/\ \A t \in DOMAIN transfers :
             /\ t \in DOMAIN transfers'
             /\ transfers'[t].status # transfers[t].status =>
                   <<transfers[t].status, transfers'[t].status, resp'.op>> \in TransferMoves
       /\ \A t \in DOMAIN transfers, ok \in BOOLEAN :
             LET rejected == /\ resp'.code = "invalid"
                             /\ transfers' = transfers
                             /\ items' = items
             IN  /\ approve_transfer("s1", t, ok) =>
                       /\ items' = items
                       /\ transfers[t].status # "pending" => rejected
                 /\ complete_transfer("s1", t, ok) =>
                       (transfers[t].status # "in_transit" => rejected)
                 /\ cancel_transfer("s1", t, ok) =>
                       (transfers[t].status \in {"completed", "cancelled"} => rejected)]_vars

\* A cancel of a completed transfer has just been turned down, next to a
\* transfer that was cancelled.
C16_Witness ==
    /\ resp = Response("cancel_transfer", "invalid")
    /\ \E t \in DOMAIN transfers : transfers[t].status = "completed"
    /\ \E t \in DOMAIN transfers : transfers[t].status = "cancelled"

\* C17 (transfer initiate): a call of the service with item.hub # from_hub,
\* from_hub = to_hub, quantity <= 0 or quantity > quantity_available is
\* rejected, creates no transfer and changes no item; an accepted call
\* appends exactly one transfer, pending, takes exactly the quantity out of
\* the source item's quantity_available, leaves its quantity_total and every
\* other item as they were.
C17_TransferInitiate ==
    [][resp'.op = "initiate_transfer" =>
        \A i \in DOMAIN items, fh \in Hubs, th \in Hubs :
          \A q \in TransferQuantities, ok \in BOOLEAN :
              LET outcome ==
                    IF \/ items[i].hub # fh
                       \/ fh = th
                       \/ q <= 0
                       \/ q > items[i].quantity_available
                    THEN /\ resp'.code = "invalid"
                         /\ transfers' = transfers
                         /\ items' = items
                    ELSE resp'.code = "ok" =>
                           /\ transfers' = Append(transfers,
                                  [item |-> i, from_hub |-> fh, to_hub |-> th,
                                   quantity |-> q, status |-> "pending"])
                           /\ items' = [items EXCEPT
                                           ![i].quantity_available = @ - q]
              IN  outcome \/ ~InventoryTransferService_initiate_transfer(i, fh, th, q, ok)]_vars

\* A call has just been rejected after an accepted one that holds its
\* quantity at the source.
C17_Witness ==
    /\ resp = Response("initiate_transfer", "invalid")
    /\ Len(transfers) = 1
    /\ transfers[1].status = "pending"
    /\ items[transfers[1].item].quantity_available
          = items[transfers[1].item].quantity_total - transfers[1].quantity

(***************************************************************************)
(* The notification specification: the stock of two hubs, one reservation  *)
(* that may come back late and one transfer, with a notification gateway   *)
(* that may raise on any call.                                             *)
(***************************************************************************)
InitNotify ==
    /\ items = <<InventoryItem("A", "tent", 2, 2), InventoryItem("B", "lamp", 1, 1)>>
    /\ reservations = << >>
    /\ transfers = << >>
    /\ users = [u \in Borrowers |-> User]
    /\ now = 0
    /\ resp = Response("none", "ok")
    /\ reqs = NoReqs

NextNotify ==
    \/ /\ Len(reservations) < MaxRes
       /\ Create("u1", 1, "A", 1, now, now + 1)
    \/ \E r \in DOMAIN reservations : pickup("s1", r)
    \/ \E r \in DOMAIN reservations, ok \in BOOLEAN : return_item("s1", r, ok)
    \/ \E i \in DOMAIN items, h \in Hubs, ok \in BOOLEAN :
          /\ Len(transfers) < MaxTransfers
          /\ initiate_transfer("s1", i, h, 1, ok)
    \/ \E t \in DOMAIN transfers, ok \in BOOLEAN : approve_transfer("s1", t, ok)
    \/ \E t \in DOMAIN transfers, ok \in BOOLEAN : complete_transfer("s1", t, ok)
    \/ \E t \in DOMAIN transfers, ok \in BOOLEAN : cancel_transfer("s1", t, ok)
    \/ \E t \in 0 .. MaxDay : AdvanceClock(t)

SpecNotify == InitNotify /\ [][NextNotify]_vars

\* The answers of a call that was turned down before it changed anything.
Rejections == {"forbidden", "not_found", "invalid"}

\* C9 (notification decoupling): a transfer initiate / approve / complete /
\* cancel and a late return that pass their checks never end in an error,
\* whatever the notification gateway does, and their change is persisted: the
\* transfer row is created or moves to its next status, the late return is
\* counted.
C9_NotificationDecoupled ==
    [][/\ resp'.op \in {"initiate_transfer", "approve_transfer", "complete_transfer",
                        "cancel_transfer", "return_item"} =>
             resp'.code # "error"
       /\ (resp'.op = "initiate_transfer" /\ resp'.code \notin Rejections) =>
             Len(transfers') = Len(transfers) + 1
       /\ (resp'.op \in {"approve_transfer", "complete_transfer", "cancel_transfer"}
              /\ resp'.code \notin Rejections) =>
             \E t \in DOMAIN transfers : transfers'[t].status # transfers[t].status
       /\ \A r \in DOMAIN reservations :
             (/\ resp'.op = "return_item"
              /\ reservations[r].status = "picked_up"
              /\ reservations'[r].status = "returned"
              /\ now > reservations[r].expected_return_date) =>
                users'[reservations[r].user].late_return_count
                    = users[reservations[r].user].late_return_count + 1]_vars

(***************************************************************************)
(* The reservation handlers step by step.  A request reads its rows when   *)
(* it starts (serializer validation, get_object with select_related) and   *)
(* keeps them as Python objects; each save() writes the whole object back  *)
(* in a statement of its own, committed at once: the handlers run in       *)
(* autocommit, without transaction.atomic and without row locks.  reqs[p]  *)
(* is the request worker p is serving.                                     *)
(***************************************************************************)
Idle == [op |-> "idle"]

AllIdle == \A p \in DOMAIN reqs : reqs[p] = Idle

\* Reservation rows that exist or are about to be inserted.
RowsClaimed ==
    Len(reservations)
      + Cardinality({p \in DOMAIN reqs : reqs[p].op = "create" /\ reqs[p].pc = "insert"})

CreateBegin(p, u, i, h, q, pd, erd) ==
    /\ p \in DOMAIN reqs /\ reqs[p] = Idle
    /\ i \in DOMAIN items
    /\ LET code == validate(users[u], items[i], q, pd, erd) IN
         IF code = "ok"
         THEN /\ reqs' = [reqs EXCEPT ![p] =
                            [op |-> "create", pc |-> "insert", user |-> u, item_id |-> i,
                             item |-> items[i], hub |-> h, quantity |-> q,
                             pickup_date |-> pd, expected_return_date |-> erd]]
              /\ UNCHANGED resp
         ELSE /\ resp' = [op |-> "create", code |-> code, user |-> u]
              /\ UNCHANGED reqs
    /\ UNCHANGED <<items, reservations, transfers, users, now>>

CreateInsert(p) ==
    /\ p \in DOMAIN reqs /\ reqs[p].op = "create" /\ reqs[p].pc = "insert"
    /\ LET rq == reqs[p] IN
         reservations' = Append(reservations,
                                Reservation(rq.user, rq.item_id, rq.hub, rq.quantity,
                                            "confirmed", rq.pickup_date,
                                            rq.expected_return_date))
    /\ reqs' = [reqs EXCEPT ![p].pc = "save_item"]
    /\ UNCHANGED <<items, transfers, users, now, resp>>

CreateSaveItem(p) ==
    /\ p \in DOMAIN reqs /\ reqs[p].op = "create" /\ reqs[p].pc = "save_item"
    /\ items' = [items EXCEPT ![reqs[p].item_id] = hold(reqs[p].item, reqs[p].quantity)]
    /\ resp' = [op |-> "create", code |-> "ok", user |-> reqs[p].user]
    /\ reqs' = [reqs EXCEPT ![p] = Idle]
    /\ UNCHANGED <<reservations, transfers, users, now>>

\* get_object of pickup / return_item / cancel and the checks that follow it.
TransitionBegin(p, op, actor, r) ==
    /\ p \in DOMAIN reqs /\ reqs[p] = Idle
    /\ r \in DOMAIN reservations
    /\ LET res == reservations[r]
           code == IF r \notin get_queryset(actor) THEN "not_found"
                   ELSE IF /\ op = "cancel"
                           /\ res.user # actor
                           /\ role(actor) \notin {"steward", "admin"}
                   THEN "forbidden"
                   ELSE IF \/ op = "pickup" /\ res.status # "confirmed"
                           \/ op = "return_item" /\ res.status # "picked_up"
                           \/ op = "cancel" /\ res.status \notin {"pending", "confirmed"}
                   THEN "invalid"
                   ELSE "ok"
       IN IF code = "ok"
          THEN /\ reqs' = [reqs EXCEPT ![p] =
                             [op |-> op, pc |-> "save_reservation", id |-> r, res |-> res,
                              item |-> items[res.item], usr |-> users[res.user]]]
               /\ UNCHANGED resp
          ELSE /\ resp' = Response(op, code)
               /\ UNCHANGED reqs
    /\ UNCHANGED <<items, reservations, transfers, users, now>>

PickupBegin(p, actor, r) == TransitionBegin(p, "pickup", actor, r)

ReturnBegin(p, actor, r) == TransitionBegin(p, "return_item", actor, r)

CancelBegin(p, actor, r) == TransitionBegin(p, "cancel", actor, r)

\* reservation.status = ...; reservation.save()
SaveReservation(p) ==
    /\ p \in DOMAIN reqs /\ reqs[p].op # "idle" /\ reqs[p].pc = "save_reservation"
    /\ LET rq == reqs[p]
           saved == IF rq.op = "pickup" THEN [rq.res EXCEPT !.status = "picked_up"]
                    ELSE IF rq.op = "cancel" THEN [rq.res EXCEPT !.status = "cancelled"]
                    ELSE [rq.res EXCEPT !.status = "returned", !.actual_return_date = now]
       IN /\ reservations' = [reservations EXCEPT ![rq.id] = saved]
          /\ IF rq.op = "pickup"
             THEN /\ reqs' = [reqs EXCEPT ![p] = Idle]
                  /\ resp' = Response("pickup", "ok")
             ELSE /\ reqs' = [reqs EXCEPT ![p].pc = "save_item", ![p].res = saved]
                  /\ UNCHANGED resp
    /\ UNCHANGED <<items, transfers, users, now>>

\* item.quantity_available += reservation.quantity; item.save()
SaveItem(p) ==
    /\ p \in DOMAIN reqs /\ reqs[p].op \in {"cancel", "return_item"}
    /\ reqs[p].pc = "save_item"
    /\ LET rq == reqs[p]
           is_late == rq.res.actual_return_date > rq.res.expected_return_date
       IN /\ items' = [items EXCEPT ![rq.res.item] = release(rq.item, rq.res.quantity)]
          /\ IF rq.op = "return_item" /\ is_late
             THEN /\ reqs' = [reqs EXCEPT ![p].pc = "penalty"]
                  /\ UNCHANGED resp
             ELSE /\ reqs' = [reqs EXCEPT ![p] = Idle]
                  /\ resp' = IF rq.op = "return_item"
                             THEN OnTimeResponse(reservations, rq.res.user)
                             ELSE Response(rq.op, "ok")
    /\ UNCHANGED <<reservations, transfers, users, now>>

\* LateReturnService.apply_late_return_penalty(user, reservation); user.save()
SavePenalty(p) ==
    /\ p \in DOMAIN reqs /\ reqs[p].op = "return_item" /\ reqs[p].pc = "penalty"
    /\ users' = [users EXCEPT ![reqs[p].res.user] =
                    apply_late_return_penalty(reqs[p].usr, TRUE)]
    /\ reqs' = [reqs EXCEPT ![p] = Idle]
    /\ resp' = LateResponse(reqs[p].usr, TRUE)
    /\ UNCHANGED <<items, reservations, transfers, now>>

\* The request of worker p ends in an exception before its next write (the
\* statement fails, the connection drops, the worker is killed): what it has
\* saved so far stays, nothing is rolled back.
Fail(p) ==
    /\ p \in DOMAIN reqs /\ reqs[p].op # "idle"
    /\ resp' = Response(reqs[p].op, "error")
    /\ reqs' = [reqs EXCEPT ![p] = Idle]
    /\ UNCHANGED <<items, reservations, transfers, users, now>>

(***************************************************************************)
(* The concurrency specification: two workers serve requests of one        *)
(* borrower and a steward on one item at the same time, within one day.    *)
(***************************************************************************)
MaxConcRes == 2      \* reservation rows created under concurrency

InitWorkers(W) ==
    /\ items = <<InventoryItem("A", "tent", 2, 2)>>
    /\ reservations = << >>
    /\ transfers = << >>
    /\ users = [u \in Borrowers |-> User]
    /\ now = 0
    /\ resp = Response("none", "ok")
    /\ reqs = [p \in W |-> Idle]

NextConc ==
    \/ \E p \in DOMAIN reqs, q \in {1, 2} :
          /\ RowsClaimed < MaxConcRes
          /\ CreateBegin(p, "u1", 1, "A", q, now, now + 1)
    \/ \E p \in DOMAIN reqs : CreateInsert(p)
    \/ \E p \in DOMAIN reqs : CreateSaveItem(p)
    \/ \E p \in DOMAIN reqs, r \in DOMAIN reservations : PickupBegin(p, "s1", r)
    \/ \E p \in DOMAIN reqs, r \in DOMAIN reservations : ReturnBegin(p, "s1", r)
    \/ \E p \in DOMAIN reqs, r \in DOMAIN reservations : CancelBegin(p, "u1", r)
    \/ \E p \in DOMAIN reqs : SaveReservation(p)
    \/ \E p \in DOMAIN reqs : SaveItem(p)

SpecConc == InitWorkers({1, 2}) /\ [][NextConc]_vars

(***************************************************************************)
(* The failure specification: one worker, whose request may fail between   *)
(* any two of its writes, and the clock.                                   *)
(***************************************************************************)
NextFail ==
    \/ NextConc
    \/ \E p \in DOMAIN reqs : SavePenalty(p)
    \/ \E p \in DOMAIN reqs : Fail(p)
    \/ \E t \in 0 .. MaxDay : AdvanceClock(t)

SpecFail == InitWorkers({1}) /\ [][NextFail]_vars

\* The stock of item i held by reservations that are still open.
RECURSIVE Held(_, _)
Held(rs, i) ==
    IF rs = << >> THEN 0
    ELSE (IF Head(rs).item = i /\ Head(rs).status \in {"pending", "confirmed",
                                                       "picked_up", "overdue"}
          THEN Head(rs).quantity ELSE 0) + Held(Tail(rs), i)

\* C6 (concurrent reservers): once concurrent create requests on an item have
\* all been answered, the quantities of the reservations they created sum to
\* no more than the stock that was available before them, and
\* quantity_available is that stock minus the sum.
C6_NoOversell ==
    (AllIdle /\ \A r \in DOMAIN reservations : reservations[r].status = "confirmed") =>
        \A i \in DOMAIN items :
            /\ Held(reservations, i) <= items[i].quantity_total
            /\ items[i].quantity_available = items[i].quantity_total - Held(reservations, i)

\* C8 (atomicity): whenever no request is in flight, also after a request has
\* failed between its writes, the reservation rows and quantity_available
\* agree: the stock taken out of each item is exactly the stock its open
\* reservations hold.
C8_AtomicTransitions ==
    AllIdle =>
        \A i \in DOMAIN items :
            items[i].quantity_available = items[i].quantity_total - Held(reservations, i)

(***************************************************************************)
(* Concurrent writers of one user row.  Each of them reads the whole row   *)
(* and later writes the whole row back with user.save(): the late return   *)
(* (ReturnBegin .. SavePenalty above), the steward endpoint                *)
(* lift_restriction and the sweep check_and_lift_expired_restrictions.     *)
(***************************************************************************)
\* User.objects.get(pk=user_id) of the endpoint and the null test of the
\* service.
LiftBegin(p, actor, u) ==
    /\ p \in DOMAIN reqs /\ reqs[p] = Idle
    /\ IF ~IsStewardOrAdmin(actor)
       THEN /\ resp' = [op |-> "lift_restriction", code |-> "forbidden",
                        user |-> u, sent |-> {}]
            /\ UNCHANGED reqs
       ELSE IF ~has_restriction(users[u])
       THEN /\ resp' = [op |-> "lift_restriction", code |-> "invalid",
                        user |-> u, sent |-> {}]
            /\ UNCHANGED reqs
       ELSE /\ reqs' = [reqs EXCEPT ![p] =
                          [op |-> "lift_restriction", pc |-> "save_user",
                           user |-> u, usr |-> users[u]]]
            /\ UNCHANGED resp
    /\ UNCHANGED <<items, reservations, transfers, users, now>>

\* user.borrowing_restricted_until = None; user.save()
LiftSave(p) ==
    /\ p \in DOMAIN reqs /\ reqs[p].op = "lift_restriction"
    /\ users' = [users EXCEPT ![reqs[p].user] =
                    [reqs[p].usr EXCEPT !.borrowing_restricted_until = NULL]]
    /\ resp' = [op |-> "lift_restriction", code |-> "ok", user |-> reqs[p].user,
                sent |-> {"restriction_lifted"}]
    /\ reqs' = [reqs EXCEPT ![p] = Idle]
    /\ UNCHANGED <<items, reservations, transfers, now>>

\* The query of the sweep: the rows of the users whose restriction has passed.
SweepBegin(p) ==
    /\ p \in DOMAIN reqs /\ reqs[p] = Idle
    /\ IF expired_restrictions = {}
       THEN /\ resp' = [op |-> "lift_expired_restrictions", code |-> "ok",
                        restrictions_lifted |-> 0]
            /\ UNCHANGED reqs
       ELSE /\ reqs' = [reqs EXCEPT ![p] =
                          [op |-> "lift_expired_restrictions", pc |-> "save_user",
                           rows |-> [u \in expired_restrictions |-> users[u]],
                           count |-> 0]]
            /\ UNCHANGED resp
    /\ UNCHANGED <<items, reservations, transfers, users, now>>

\* One turn of the loop of the sweep: lift_restriction(user) on a row read
\* by the query.
SweepSave(p, u) ==
    /\ p \in DOMAIN reqs /\ reqs[p].op = "lift_expired_restrictions"
    /\ u \in DOMAIN reqs[p].rows
    /\ users' = [users EXCEPT ![u] =
                    [reqs[p].rows[u] EXCEPT !.borrowing_restricted_until = NULL]]
    /\ LET rest == [v \in DOMAIN reqs[p].rows \ {u} |-> reqs[p].rows[v]]
           count == reqs[p].count + 1
       IN  IF DOMAIN rest = {}
           THEN /\ reqs' = [reqs EXCEPT ![p] = Idle]
                /\ resp' = [op |-> "lift_expired_restrictions", code |-> "ok",
                            restrictions_lifted |-> count]
           ELSE /\ reqs' = [reqs EXCEPT ![p].rows = rest, ![p].count = count]
                /\ UNCHANGED resp
    /\ UNCHANGED <<items, reservations, transfers, now>>

(***************************************************************************)
(* The user-row specification: borrower u2 has had 3 late returns, the     *)
(* restriction they brought ends on day 1, and two more items are out     *)
(* and overdue; two workers serve the returns, the lifts and the sweep.    *)
(***************************************************************************)
MaxRaceRes == 2      \* reservation rows out in the user-row specification

InitUserRace ==
    /\ items = <<InventoryItem("A", "tent", 3, 3 - MaxRaceRes)>>
    /\ reservations = [r \in 1 .. MaxRaceRes |->
                          Reservation("u2", 1, "A", 1, "picked_up", -2, -1)]
    /\ transfers = << >>
    /\ users = InitUsers
    /\ now = 0
    /\ resp = Response("none", "ok")
    /\ reqs = [p \in {1, 2} |-> Idle]

NextUserRace ==
    \/ \E p \in DOMAIN reqs, r \in DOMAIN reservations : ReturnBegin(p, "s1", r)
    \/ \E p \in DOMAIN reqs : SaveReservation(p)
    \/ \E p \in DOMAIN reqs : SaveItem(p)
    \/ \E p \in DOMAIN reqs : SavePenalty(p)
    \/ \E p \in DOMAIN reqs, a \in {"u1", "s1"}, u \in Borrowers : LiftBegin(p, a, u)
    \/ \E p \in DOMAIN reqs : LiftSave(p)
    \/ \E p \in DOMAIN reqs : SweepBegin(p)
    \/ \E p \in DOMAIN reqs, u \in Borrowers : SweepSave(p, u)
    \/ \E t \in 0 .. MaxDay : AdvanceClock(t)

SpecUserRace == InitUserRace /\ [][NextUserRace]_vars

\* C22 (monotonic late_return_count): under any interleaving of late
\* returns, manual lifts and the sweep on one user, no step makes a user's
\* late_return_count smaller, and a step that clears a user's
\* borrowing_restricted_until is a lift or sweep write that had read the
\* restriction it clears.
C22_LateCountMonotonic ==
    [][\A u \in Borrowers :
          /\ users'[u].late_return_count >= users[u].late_return_count
          /\ (/\ users[u].borrowing_restricted_until # NULL
              /\ users'[u].borrowing_restricted_until = NULL) =>
                \E p \in DOMAIN reqs :
                    \/ /\ reqs[p].op = "lift_restriction"
                       /\ reqs'[p] = Idle
                       /\ reqs[p].user = u
                       /\ reqs[p].usr.borrowing_restricted_until
                             = users[u].borrowing_restricted_until
                    \/ /\ reqs[p].op = "lift_expired_restrictions"
                       /\ reqs'[p] # reqs[p]
                       /\ u \in DOMAIN reqs[p].rows
                       /\ reqs[p].rows[u].borrowing_restricted_until
                             = users[u].borrowing_restricted_until]_vars

(***************************************************************************)
(* The acknowledgment specification: borrower u1 has 4 earlier returns,    *)
(* on days -4 .. -1, each on time or a day late, and items out that are    *)
(* due on day 1; the steward takes them back as the days pass.             *)
(***************************************************************************)
MaxAckRes == 2       \* reservation rows out in the acknowledgment specification

\* Which of the 4 earlier returns were late.
EarlierReturns == [1 .. 4 -> BOOLEAN]

InitAck ==
    /\ items = <<InventoryItem("A", "tent", 3, 3 - MaxAckRes)>>
    /\ \E late \in EarlierReturns :
          /\ reservations =
                [r \in 1 .. 4 + MaxAckRes |->
                    IF r <= 4
                    THEN [Reservation("u1", 1, "A", 1, "returned", r - 7,
                                      IF late[r] THEN r - 6 ELSE r - 5)
                             EXCEPT !.actual_return_date = r - 5]
                    ELSE Reservation("u1", 1, "A", 1, "picked_up", 0, 1)]
          /\ users = [InitUsers EXCEPT !["u1"].late_return_count =
                          Cardinality({r \in 1 .. 4 : late[r]})]
    /\ transfers = << >>
    /\ now = 0
    /\ resp = Response("none", "ok")
    /\ reqs = NoReqs

NextAck ==
    \/ \E r \in DOMAIN reservations, ok \in BOOLEAN : return_item("s1", r, ok)
    \/ \E t \in 0 .. MaxDay : AdvanceClock(t)

SpecAck == InitAck /\ [][NextAck]_vars

\* The returned rows of user u, and those returned after row l was.
Returned(rs, u) ==
    {r \in DOMAIN rs : rs[r].user = u /\ rs[r].status = "returned"}

ReturnedAfter(rs, u, l) ==
    {r \in Returned(rs, u) : rs[r].actual_return_date > rs[l].actual_return_date}

\* The 5 most recent returns of user u are all on time: there are 5 returns
\* and every late one has 5 later returns after it.
FiveMostRecentOnTime(rs, u) ==
    /\ Cardinality(Returned(rs, u)) >= 5
    /\ \A l \in Returned(rs, u) :
          rs[l].actual_return_date > rs[l].expected_return_date =>
              Cardinality(ReturnedAfter(rs, u, l)) >= 5

\* C23 (consecutive-return acknowledgment): an on-time return awards
\* 'on_time_return', and awards 'consecutive_returns' as well exactly when
\* the 5 most recent returns of the user, this one included, are all on
\* time; a late return awards nothing.
C23_ConsecutiveReturns ==
    [][\A r \in DOMAIN reservations :
          (/\ resp'.op = "return_item"
           /\ resp'.code = "ok"
           /\ reservations[r].status = "picked_up"
           /\ reservations'[r].status = "returned") =>
              IF now > reservations[r].expected_return_date
              THEN "awards" \notin DOMAIN resp'
              ELSE /\ "on_time_return" \in resp'.awards
                   /\ "consecutive_returns" \in resp'.awards
                         <=> FiveMostRecentOnTime(reservations',
                                                  reservations[r].user)]_vars

(***************************************************************************)
(* The extension specification: borrower u1 has items out that are due on  *)
(* day 1; borrowers and the steward ask for and approve extensions, and    *)
(* the steward takes the items back as the days pass.                      *)
(***************************************************************************)
MaxExtRes == 1       \* reservation rows out in the extension specification

\* The new_return_date of an approve_extension request (NULL: none given).
NewReturnDates == {NULL, 0, 2}

InitExtend ==
    /\ items = <<InventoryItem("A", "tent", 3, 3 - MaxExtRes)>>
    /\ reservations = [r \in 1 .. MaxExtRes |->
                          Reservation("u1", 1, "A", 1, "picked_up", 0, 1)]
    /\ transfers = << >>
    /\ users = [u \in Borrowers |-> User]
    /\ now = 0
    /\ resp = Response("none", "ok")
    /\ reqs = NoReqs

NextExtend ==
    \/ \E a \in Actors, r \in DOMAIN reservations : request_extension(a, r)
    \/ \E a \in Actors, r \in DOMAIN reservations, d \in NewReturnDates :
          approve_extension(a, r, d)
    \/ \E r \in DOMAIN reservations, ok \in BOOLEAN : return_item("s1", r, ok)
    \/ \E t \in 0 .. MaxDay : AdvanceClock(t)

SpecExtend == InitExtend /\ [][NextExtend]_vars

\* C24 (approve_extension gate): a call of approve_extension by an actor who
\* is neither steward nor admin is turned down and leaves every reservation,
\* extension_approved and expected_return_date included, as it was.
C24_ApproveExtensionGate ==
    [][\A a \in Actors, r \in DOMAIN reservations, d \in NewReturnDates :
          (approve_extension(a, r, d) /\ ~IsStewardOrAdmin(a)) =>
              /\ resp'.code # "ok"
              /\ reservations' = reservations]_vars

\* C25 (approve_extension effect): a call without extension_requested or
\* without a new date is turned down and changes nothing; an accepted call
\* sets extension_approved and puts the new date in expected_return_date,
\* and changes nothing else of the reservation, no other reservation, no
\* item and no user; a return of a reservation with an approved extension on
\* or before its expected_return_date leaves late_return_count as it was.
C25_ApproveExtensionEffect ==
    [][/\ \A a \in Actors, r \in DOMAIN reservations, d \in NewReturnDates :
             approve_extension(a, r, d) =>
                 /\ items' = items
                 /\ users' = users
                 /\ IF ~reservations[r].extension_requested \/ d = NULL
                    THEN /\ resp'.code # "ok"
                         /\ reservations' = reservations
                    ELSE resp'.code = "ok" =>
                           reservations' =
                               [reservations EXCEPT
                                   ![r] = [@ EXCEPT !.extension_approved = TRUE,
                                                    !.expected_return_date = d]]
       /\ \A r \in DOMAIN reservations :
             (/\ resp'.op = "return_item"
              /\ reservations[r].status = "picked_up"
              /\ reservations'[r].status = "returned"
              /\ reservations[r].extension_approved
              /\ now <= reservations[r].expected_return_date) =>
                 /\ users' = users
                 /\ "on_time_return" \in resp'.awards]_vars

\* An item due on day 1, with its extension approved to day 2, has just been
\* returned on day 2 and no late return was counted.
C25_Witness ==
    /\ resp.op = "return_item"
    /\ now = 2
    /\ reservations[1].status = "returned"
    /\ reservations[1].extension_approved
    /\ reservations[1].expected_return_date = 2
    /\ users["u1"].late_return_count = 0

(***************************************************************************)
(* The scheduled jobs as workers next to live requests.  Each job reads    *)
(* its candidate rows in one query and then handles them one unit at a     *)
(* time, writing from the rows it read.                                    *)
(***************************************************************************)
\* The rows a job still has to handle, without row r.
RowsWithout(rows, r) == [x \in DOMAIN rows \ {r} |-> rows[x]]

\* The unit of job worker p for row r is over.
UnitDone(p, r, answer) ==
    LET rest == RowsWithout(reqs[p].rows, r)
        count == reqs[p].count + 1
    IN  IF DOMAIN rest = {}
        THEN /\ reqs' = [reqs EXCEPT ![p] = Idle]
             /\ resp' = [op |-> answer, code |-> "ok", count |-> count]
        ELSE /\ reqs' = [reqs EXCEPT ![p].rows = rest, ![p].count = count]
             /\ UNCHANGED resp

\* The candidate query of expire_pending_reservations.
ExpireBegin(p) ==
    /\ p \in DOMAIN reqs /\ reqs[p] = Idle
    /\ IF expired_reservations = {}
       THEN /\ resp' = [op |-> "expire", code |-> "ok", count |-> 0]
            /\ UNCHANGED reqs
       ELSE /\ reqs' = [reqs EXCEPT ![p] =
                          [op |-> "expire", pc |-> "unit",
                           rows |-> [r \in expired_reservations |-> reservations[r]],
                           count |-> 0]]
            /\ UNCHANGED resp
    /\ UNCHANGED <<items, reservations, transfers, users, now>>

\* One unit of expire_pending_reservations, a transaction: the item is read
\* again under select_for_update and gets the quantity back, and the row's
\* status (update_fields) is written as cancelled.
ExpireUnit(p, r) ==
    /\ p \in DOMAIN reqs /\ reqs[p].op = "expire"
    /\ r \in DOMAIN reqs[p].rows
    /\ items' = [items EXCEPT ![reqs[p].rows[r].item] =
                    release(@, reqs[p].rows[r].quantity)]
    /\ reservations' = [reservations EXCEPT ![r].status = "cancelled"]
    /\ UnitDone(p, r, "expire")
    /\ UNCHANGED <<transfers, users, now>>

\* The candidate query of send_overdue_reminders.
OverdueBegin(p) ==
    /\ p \in DOMAIN reqs /\ reqs[p] = Idle
    /\ IF overdue_reservations = {}
       THEN /\ resp' = [op |-> "overdue", code |-> "ok", count |-> 0]
            /\ UNCHANGED reqs
       ELSE /\ reqs' = [reqs EXCEPT ![p] =
                          [op |-> "overdue", pc |-> "unit",
                           rows |-> [r \in overdue_reservations |-> reservations[r]],
                           count |-> 0]]
            /\ UNCHANGED resp
    /\ UNCHANGED <<items, reservations, transfers, users, now>>

\* One unit of send_overdue_reminders: a row that was not overdue when it
\* was read has its status (update_fields) written as overdue.
OverdueUnit(p, r) ==
    /\ p \in DOMAIN reqs /\ reqs[p].op = "overdue"
    /\ r \in DOMAIN reqs[p].rows
    /\ reservations' = IF needs_update(reqs[p].rows[r])
                       THEN [reservations EXCEPT ![r].status = "overdue"]
                       ELSE reservations
    /\ UnitDone(p, r, "overdue")
    /\ UNCHANGED <<items, transfers, users, now>>

(***************************************************************************)
(* The job specification: borrower u1 has one reservation that was to be   *)
(* picked up yesterday, pending, and items out that were due yesterday;    *)
(* one worker serves cancels and returns while another runs the two jobs.  *)
(***************************************************************************)
MaxJobRes == 1       \* reservation rows out in the job specification

InitJobRace ==
    /\ items = <<InventoryItem("A", "tent", 3, 2 - MaxJobRes)>>
    /\ reservations =
          [r \in 1 .. 1 + MaxJobRes |->
              IF r = 1 THEN Reservation("u1", 1, "A", 1, "pending", -1, 0)
              ELSE Reservation("u1", 1, "A", 1, "picked_up", -2, -1)]
    /\ transfers = << >>
    /\ users = [u \in Borrowers |-> User]
    /\ now = 0
    /\ resp = Response("none", "ok")
    /\ reqs = [p \in {1, 2} |-> Idle]

\* Worker 1 serves the requests, worker 2 runs the jobs, one at a time.
RequestWorker == 1

JobWorker == 2

NextJobRace ==
    \/ \E r \in DOMAIN reservations : CancelBegin(RequestWorker, "u1", r)
    \/ \E r \in DOMAIN reservations : ReturnBegin(RequestWorker, "s1", r)
    \/ SaveReservation(RequestWorker)
    \/ SaveItem(RequestWorker)
    \/ SavePenalty(RequestWorker)
    \/ ExpireBegin(JobWorker)
    \/ \E r \in DOMAIN reservations : ExpireUnit(JobWorker, r)
    \/ OverdueBegin(JobWorker)
    \/ \E r \in DOMAIN reservations : OverdueUnit(JobWorker, r)

SpecJobRace == InitJobRace /\ [][NextJobRace]_vars

\* C26 (terminal statuses are final): no step, of a request or of a job,
\* changes the status of a reservation that is returned or cancelled.
C26_TerminalFinal ==
    [][\A r \in DOMAIN reservations :
          reservations[r].status \in {"returned", "cancelled"} =>
              reservations'[r].status = reservations[r].status]_vars

\* C28 (single release): whenever no request and no job is in flight, no
\* item has more stock available than its total less what its open
\* reservations hold (no quantity was given back twice), and none has less
\* (no release was lost).
C28_SingleRelease ==
    AllIdle =>
        \A i \in DOMAIN items :
            LET free == items[i].quantity_total - Held(reservations, i)
            IN  /\ items[i].quantity_available <= free
                /\ items[i].quantity_available >= free

(***************************************************************************)
(* The life-cycle specification: one reservation of borrower u1, waiting,  *)
(* confirmed or handed out, expected back on day 1; the requests that move *)
(* it, the overdue job and the clock.                                      *)
(***************************************************************************)
InitLifeCycle ==
    /\ items = <<InventoryItem("A", "tent", 3, 2)>>
    /\ reservations \in {<<Reservation("u1", 1, "A", 1, st, 0, 1)>> :
                            st \in {"pending", "confirmed", "picked_up"}}
    /\ transfers = << >>
    /\ users = [u \in Borrowers |-> User]
    /\ now = 0
    /\ resp = Response("none", "ok")
    /\ reqs = NoReqs

NextLifeCycle ==
    \/ \E a \in Actors, r \in DOMAIN reservations : pickup(a, r)
    \/ \E a \in Actors, r \in DOMAIN reservations, ok \in BOOLEAN :
          return_item(a, r, ok)
    \/ \E a \in Actors, r \in DOMAIN reservations : cancel(a, r)
    \/ \E a \in Actors, r \in DOMAIN reservations : request_extension(a, r)
    \/ \E a \in Actors, r \in DOMAIN reservations, d \in NewReturnDates :
          approve_extension(a, r, d)
    \/ send_overdue_reminders({}, {}, {}, {})
    \/ \E t \in 0 .. MaxDay : AdvanceClock(t)

SpecLifeCycle == InitLifeCycle /\ [][NextLifeCycle]_vars

\* Some request of NextLifeCycle takes reservation r to status st.
CanMoveTo(r, st) ==
    ENABLED (/\ NextLifeCycle
             /\ reservations'[r].status = st)

\* C27 (terminal statuses can be reached): a pending or confirmed
\* reservation can be cancelled, a picked_up one can be returned, and one
\* that the overdue job has moved to overdue can be returned as well, its
\* quantity going back to the item.
C27_TerminalReachable ==
    \A r \in DOMAIN reservations :
        /\ reservations[r].status \in {"pending", "confirmed"} =>
              CanMoveTo(r, "cancelled")
        /\ reservations[r].status = "picked_up" => CanMoveTo(r, "returned")
        /\ reservations[r].status = "overdue" =>
              ENABLED (/\ NextLifeCycle
                       /\ reservations'[r].status = "returned"
                       /\ quantity_available(items', reservations[r].item)
                            = quantity_available(items, reservations[r].item)
                                + reservations[r].quantity)

(***************************************************************************)
(* Concurrent requests on one transfer.  The endpoint reads the transfer   *)
(* row, then the service, one transaction, checks the status of the row it *)
(* was given, reads the items and writes items and transfer; a             *)
(* notification that raises rolls the transaction back.                    *)
(***************************************************************************)
\* InventoryTransfer.objects.get(pk=transfer_id) of complete_transfer and
\* cancel_transfer.
TransferBegin(p, op, actor, t) ==
    /\ p \in DOMAIN reqs /\ reqs[p] = Idle
    /\ IF ~IsStewardOrAdmin(actor)
       THEN /\ resp' = Response(op, "forbidden")
            /\ UNCHANGED reqs
       ELSE IF t \notin DOMAIN transfers
       THEN /\ resp' = Response(op, "not_found")
            /\ UNCHANGED reqs
       ELSE /\ reqs' = [reqs EXCEPT ![p] =
                          [op |-> op, pc |-> "service", id |-> t, tr |-> transfers[t]]]
            /\ UNCHANGED resp
    /\ UNCHANGED <<items, reservations, transfers, users, now>>

\* InventoryTransferService.complete_transfer(transfer, ..)
CompleteService(p, notifyOk) ==
    /\ p \in DOMAIN reqs /\ reqs[p].op = "complete_transfer"
    /\ LET tr == reqs[p].tr
           source == reduce_source(items, tr)
           dest == destination_item(source, tr.to_hub, source[tr.item].name)
       IN  IF tr.status # "in_transit"
           THEN /\ resp' = Response("complete_transfer", "invalid")
                /\ UNCHANGED <<transfers, items>>
           ELSE IF ~notifyOk
           THEN /\ resp' = Response("complete_transfer", "error")
                /\ UNCHANGED <<transfers, items>>
           ELSE /\ items' = IF dest # 0
                            THEN [source EXCEPT
                                    ![dest].quantity_total = @ + tr.quantity,
                                    ![dest].quantity_available = @ + tr.quantity]
                            ELSE Append(source,
                                        InventoryItem(tr.to_hub, source[tr.item].name,
                                                      tr.quantity, tr.quantity))
                /\ transfers' = [transfers EXCEPT ![reqs[p].id] =
                                    [tr EXCEPT !.status = "completed"]]
                /\ resp' = Response("complete_transfer", "ok")
    /\ reqs' = [reqs EXCEPT ![p] = Idle]
    /\ UNCHANGED <<reservations, users, now>>

\* InventoryTransferService.cancel_transfer(transfer, ..)
CancelService(p, notifyOk) ==
    /\ p \in DOMAIN reqs /\ reqs[p].op = "cancel_transfer"
    /\ LET tr == reqs[p].tr
       IN  IF ~cancellable(tr)
           THEN /\ resp' = Response("cancel_transfer", "invalid")
                /\ UNCHANGED <<transfers, items>>
           ELSE IF ~notifyOk
           THEN /\ resp' = Response("cancel_transfer", "error")
                /\ UNCHANGED <<transfers, items>>
           ELSE /\ items' = restore_source(items, tr)
                /\ transfers' = [transfers EXCEPT ![reqs[p].id] =
                                    [tr EXCEPT !.status = "cancelled"]]
                /\ resp' = Response("cancel_transfer", "ok")
    /\ reqs' = [reqs EXCEPT ![p] = Idle]
    /\ UNCHANGED <<reservations, users, now>>

(***************************************************************************)
(* The transfer-race specification: one transfer of 1 or 2 of the 3 tents  *)
(* of hub A to hub B is in transit; two workers serve complete and cancel  *)
(* requests on it.                                                         *)
(***************************************************************************)
InitTransferRace ==
    /\ \E q \in {1, 2} :
          /\ items = <<InventoryItem("A", "tent", 3, 3 - q)>>
          /\ transfers = <<[InventoryTransfer(1, "A", "B", q)
                               EXCEPT !.status = "in_transit"]>>
    /\ reservations = << >>
    /\ users = [u \in Borrowers |-> User]
    /\ now = 0
    /\ resp = Response("none", "ok")
    /\ reqs = [p \in {1, 2} |-> Idle]

NextTransferRace ==
    \/ \E p \in DOMAIN reqs, a \in {"u1", "s1"}, t \in DOMAIN transfers :
          TransferBegin(p, "complete_transfer", a, t)
    \/ \E p \in DOMAIN reqs, a \in {"u1", "s1"}, t \in DOMAIN transfers :
          TransferBegin(p, "cancel_transfer", a, t)
    \/ \E p \in DOMAIN reqs, ok \in BOOLEAN : CompleteService(p, ok)
    \/ \E p \in DOMAIN reqs, ok \in BOOLEAN : CancelService(p, ok)

SpecTransferRace == InitTransferRace /\ [][NextTransferRace]_vars

\* C29 (transfer completion takes effect once): once the transfer is
\* completed or cancelled no request changes an item any more, so the source
\* loses the quantity at most once, the destination gains it at most once
\* and in one item, and a quantity that was delivered is not released to the
\* source as well.
C29_CompleteOnce ==
    /\ [][(\A t \in DOMAIN transfers :
              transfers[t].status \in {"completed", "cancelled"}) =>
                items' = items]_vars
    /\ [](Cardinality({j \in DOMAIN items : items[j].hub = "B"}) <= 1)

(***************************************************************************)
(* The accounting specification: reservations and transfers of the items   *)
(* of two hubs and the two jobs, every handler and job run to completion,  *)
(* from full stock or from stock with one pending reservation on it.       *)
(***************************************************************************)
MaxAcctRows == 2     \* reservation and transfer rows in the accounting specification

InitAccount ==
    /\ \/ /\ items \in InitItems
          /\ reservations = << >>
       \/ /\ items = <<InventoryItem("A", "tent", 2, 1), InventoryItem("B", "tent", 1, 1)>>
          /\ reservations = <<Reservation("u1", 1, "A", 1, "pending", 0, 1)>>
    /\ transfers = << >>
    /\ users = [u \in Borrowers |-> User]
    /\ now = 0
    /\ resp = Response("none", "ok")
    /\ reqs = NoReqs

NextAccount ==
    \/ \E i \in DOMAIN items, q \in {1, 2} :
          /\ Len(reservations) + Len(transfers) < MaxAcctRows
          /\ Create("u1", i, items[i].hub, q, 0, 1)
    \/ \E r \in DOMAIN reservations : pickup("s1", r)
    \/ \E r \in DOMAIN reservations, ok \in BOOLEAN : return_item("s1", r, ok)
    \/ \E r \in DOMAIN reservations : cancel("u1", r)
    \/ \E dbFail \in SUBSET expired_reservations :
          expire_pending_reservations(dbFail, {}, {})
    \/ send_overdue_reminders({}, {}, {}, {})
    \/ \E i \in DOMAIN items, h \in Hubs, q \in {1, 2} :
          /\ Len(reservations) + Len(transfers) < MaxAcctRows
          /\ initiate_transfer("s1", i, h, q, TRUE)
    \/ \E t \in DOMAIN transfers : approve_transfer("s1", t, TRUE)
    \/ \E t \in DOMAIN transfers : complete_transfer("s1", t, TRUE)
    \/ \E t \in DOMAIN transfers : cancel_transfer("s1", t, TRUE)
    \/ \E t \in 0 .. MaxDay : AdvanceClock(t)

SpecAccount == InitAccount /\ [][NextAccount]_vars

\* The quantity that the open transfers out of item i hold.
RECURSIVE InTransfer(_, _)
InTransfer(trs, i) ==
    IF trs = << >> THEN 0
    ELSE (IF Head(trs).item = i /\ Head(trs).status \in {"pending", "in_transit"}
          THEN Head(trs).quantity ELSE 0) + InTransfer(Tail(trs), i)

\* C30 (held-stock accounting): in every state that requests and jobs run
\* one after the other reach, the stock missing from an item's
\* quantity_available is what its pending, confirmed, picked_up and overdue
\* reservations hold plus what its pending and in_transit transfers hold.
C30_HeldStock ==
    \A i \in DOMAIN items :
        items[i].quantity_total - items[i].quantity_available
            = Held(reservations, i) + InTransfer(transfers, i)

\* An item holds stock for an overdue reservation and for a transfer in
\* transit at once.
C30_Witness ==
    \E i \in DOMAIN items :
        /\ \E r \in DOMAIN reservations :
              reservations[r].item = i /\ reservations[r].status = "overdue"
        /\ \E t \in DOMAIN transfers :
              transfers[t].item = i /\ transfers[t].status = "in_transit"
        /\ items[i].quantity_total - items[i].quantity_available = 2

====
